---- MODULE Spec2Model ----
(***************************************************************************)
(* Harmonic analysis engine of Guitariz (backend/analysis.py,              *)
(* backend/chord_madmom.py, backend/websocket_chords.py).                  *)
(*                                                                         *)
(* Time is counted in samples at 22050 Hz, so that frames_to_time(f) is    *)
(* the exact integer f * hop_length and 0.2 s, 0.5 s, 0.8 s are 4410,      *)
(* 11025 and 17640.  Confidence is counted in hundredths (0.95 is 95).     *)
(***************************************************************************)
EXTENDS Integers, Sequences, FiniteSets, TLC

VARIABLES
    chords,        \* SpecSmooth: the segment list handed to the smoother
    min_duration,  \* SpecSmooth: the threshold handed to _smooth_chords
    smooth_out,    \* SpecSmooth: what _smooth_chords returned (None before the call)
    merge_out,     \* SpecSmooth: what _merge_consecutive returned (None before the call)
    y,             \* SpecAnalyze: the decoded waveform, as runs of chroma frames
    beats,         \* SpecAnalyze: the boundary list handed to _segment_chords
    segments,      \* SpecAnalyze: what _segment_chords returned
    result,        \* SpecAnalyze: what analyze_file returned (None before the call)
    MADMOM_AVAILABLE,  \* SpecCache: whether importing madmom succeeded
    cache,         \* SpecCache: the files under cache/chords, cache/keys and cache/tempo
    procs,         \* SpecCache: the threads running analyze_file_madmom
    last,          \* SpecCache: the detector call that returned or raised last
    done,          \* SpecCache: the <<namespace, file>> pairs a call has returned a value for
    faults,        \* SpecCache: the I/O and detector failures so far
    requests,      \* SpecCache: the requests still to come
    audio_data,    \* SpecStream: the samples handed to detect_chord_from_audio
    detected,      \* SpecStream: what detect_chord_from_audio returned
    arg,           \* SpecPure: the function applied and its argument
    returned,      \* SpecPure: what the function returned (None before the call)
    analysis_semaphore,  \* SpecServer: the free permits of the semaphore
    handlers,      \* SpecServer: the threads handling the heavy requests
    wrappers,      \* SpecSeparator: _DEMUCS_WRAPPER and _DEMUCS_6STEM_WRAPPER (0: None)
    constructed,   \* SpecSeparator: how many instances of each separator were built
    callers,       \* SpecSeparator: the threads inside _get_separator / _get_separator_6stem
    active_connections,  \* SpecSession: client id -> registered socket (0: none)
    sessions,      \* SpecSession: the coroutines of websocket_chord_endpoint
    handled,       \* SpecSession: the message or disconnect handled last
    msgs           \* SpecSession: the number of messages handled so far

smoothVars  == <<chords, min_duration, smooth_out, merge_out>>
analyzeVars == <<y, beats, segments, result>>
cacheVars   == <<MADMOM_AVAILABLE, cache, procs, last, done, faults, requests>>
streamVars  == <<audio_data, detected>>
pureVars    == <<arg, returned>>
separatorVars == <<wrappers, constructed, callers>>
serverVars  == <<analysis_semaphore, handlers, wrappers, constructed, callers>>
sessionVars == <<active_connections, sessions, handled, msgs>>
vars == <<chords, min_duration, smooth_out, merge_out, y, beats, segments, result,
          MADMOM_AVAILABLE, cache, procs, last, done, faults, requests,
          audio_data, detected, arg, returned,
          analysis_semaphore, handlers, wrappers, constructed, callers,
          active_connections, sessions, handled, msgs>>

\* ------------------------------------------------------------------------
\* Generic helpers
\* ------------------------------------------------------------------------
Max2(a, b) == IF a >= b THEN a ELSE b
Min2(a, b) == IF a <= b THEN a ELSE b

SR == 22050
Sec10(t) == t * (SR \div 10)      \* t tenths of a second, in samples

\* ------------------------------------------------------------------------
\* Segment smoother (analysis.py) and fast-path merge (chord_madmom.py)
\* ------------------------------------------------------------------------
Seg(s, e, c, k) == [start |-> s, end |-> e, chord |-> c, confidence |-> k]

\* the run-merging loop shared by _smooth_chords (pass 1) and _merge_consecutive:
\* returns <<merged, current>> after the segments i..Len(cs) have been scanned
RECURSIVE MergeLoop_Sum(_, _, _, _)
\* a merge that adds the confidences of the merged segments up
MergeLoop_Sum(cs, i, merged, current) ==
    IF i > Len(cs) THEN Append(merged, current)
    ELSE IF cs[i].chord = current.chord
         THEN MergeLoop_Sum(cs, i + 1, merged,
                            [current EXCEPT !.end = cs[i].end,
                                            !.confidence = current.confidence + cs[i].confidence])
         ELSE MergeLoop_Sum(cs, i + 1, Append(merged, current), cs[i])

RECURSIVE MergeLoop_FirstConf(_, _, _, _)
\* a merge that keeps the confidence of the run's first segment
MergeLoop_FirstConf(cs, i, merged, current) ==
    IF i > Len(cs) THEN Append(merged, current)
    ELSE IF cs[i].chord = current.chord
         THEN MergeLoop_FirstConf(cs, i + 1, merged, [current EXCEPT !.end = cs[i].end])
         ELSE MergeLoop_FirstConf(cs, i + 1, Append(merged, current), cs[i])

RECURSIVE MergeLoop(_, _, _, _)
MergeLoop(cs, i, merged, current) ==
    IF i > Len(cs) THEN Append(merged, current)
    ELSE IF cs[i].chord = current.chord
         THEN MergeLoop(cs, i + 1, merged,
                        [current EXCEPT !.end = cs[i].end,
                                        !.confidence = Max2(current.confidence, cs[i].confidence)])
         ELSE MergeLoop(cs, i + 1, Append(merged, current), cs[i])

merge_consecutive(cs) ==
    IF cs = <<>> THEN <<>> ELSE MergeLoop(cs, 2, <<>>, cs[1])

\* what a call leaves behind: nothing yet, a returned value, or a raised exception
None      == [st |-> "none"]
Ok(v)     == [st |-> "ok", val |-> v]
Raised(e) == [st |-> e]

\* final[-1]["end"] = curr["end"]; an empty final raises IndexError
IndexError == Raised("IndexError")

\* a smoother that drops a short segment without extending its neighbour
ExtendLast_Dropped(final, e) == final

ExtendLast(final, e) == [final EXCEPT ![Len(final)].end = e]

RECURSIVE SmoothLoop_KeepFirst(_, _, _, _)
\* a smoother that keeps a short first segment instead of handing its start on
SmoothLoop_KeepFirst(merged, final, i, md) ==
    IF i > Len(merged) THEN Ok(final)
    ELSE LET curr == merged[i]
             dur  == curr.end - curr.start
         IN IF dur < md
            THEN IF i > 1 /\ i < Len(merged)
                 THEN IF final = <<>> THEN IndexError
                      ELSE SmoothLoop_KeepFirst(merged, ExtendLast(final, curr.end), i + 1, md)
                 ELSE IF i = 1
                 THEN SmoothLoop_KeepFirst(merged, Append(final, curr), i + 1, md)
                 ELSE IF final = <<>> THEN IndexError
                      ELSE SmoothLoop_KeepFirst(merged, ExtendLast(final, curr.end), i + 1, md)
            ELSE SmoothLoop_KeepFirst(merged, Append(final, curr), i + 1, md)

RECURSIVE SmoothLoop(_, _, _, _)
\* pass 2 of _smooth_chords: the while loop over merged, i is 1-based
SmoothLoop(merged, final, i, md) ==
    IF i > Len(merged) THEN Ok(final)
    ELSE LET curr == merged[i]
             dur  == curr.end - curr.start
         IN IF dur < md
            THEN IF i > 1 /\ i < Len(merged)
                 THEN IF final = <<>> THEN IndexError
                      ELSE SmoothLoop(merged, ExtendLast(final, curr.end), i + 1, md)
                 ELSE IF i = 1
                 THEN SmoothLoop([merged EXCEPT ![2].start = curr.start], final, i + 1, md)
                 ELSE IF final = <<>> THEN IndexError
                      ELSE SmoothLoop(merged, ExtendLast(final, curr.end), i + 1, md)
            ELSE SmoothLoop(merged, Append(final, curr), i + 1, md)

smooth_chords(cs, md) ==
    IF cs = <<>> THEN Ok(<<>>)
    ELSE LET merged == MergeLoop(cs, 2, <<>>, cs[1])
         IN IF Len(merged) < 2 THEN Ok(merged)
            ELSE SmoothLoop(merged, <<>>, 1, md)

\* ------------------------------------------------------------------------
\* SpecSmooth: the smoother and the fast-path merge on every bounded
\* time-ordered gap-free segment list
\* ------------------------------------------------------------------------
MaxSegs == 3

SmLabels == {<<"C">>, <<"G">>, <<"A", "m", "i", "n">>}
SmDurs   == {Sec10(1), Sec10(4)}
SmConfs  == {40, 95}
SmStarts == {Sec10(2)}
SmMins   == {Sec10(2), Sec10(8)}

RECURSIVE Tile(_, _, _, _)
\* the gap-free list starting at t0 with the given durations, labels and confidences
Tile(t0, ds, ls, ks) ==
    IF ds = <<>> THEN <<>>
    ELSE <<Seg(t0, t0 + Head(ds), Head(ls), Head(ks))>>
         \o Tile(t0 + Head(ds), Tail(ds), Tail(ls), Tail(ks))

\* the gap-free lists of at most max segments
GapFreeLists(max) ==
    UNION { { Tile(t0, ds, ls, ks) :
                t0 \in SmStarts, ds \in [1..n -> SmDurs],
                ls \in [1..n -> SmLabels], ks \in [1..n -> SmConfs] } : n \in 1..max }

Smooth ==
    /\ smooth_out.st = "none"
    /\ smooth_out' = smooth_chords(chords, min_duration)
    /\ UNCHANGED <<chords, min_duration, merge_out, analyzeVars, cacheVars, streamVars, pureVars, serverVars, sessionVars>>

MergeConsecutive ==
    /\ merge_out.st = "none"
    /\ merge_out' = Ok(merge_consecutive(chords))
    /\ UNCHANGED <<chords, min_duration, smooth_out, analyzeVars, cacheVars, streamVars, pureVars, serverVars, sessionVars>>

NextSmooth == Smooth \/ MergeConsecutive

\* ------------------------------------------------------------------------
\* Strings are sequences of one-character strings, so that the code's
\* slicing, startswith and "in" tests are computed rather than assumed
\* ------------------------------------------------------------------------
StartsWith(s, pre) == Len(s) >= Len(pre) /\ SubSeq(s, 1, Len(pre)) = pre
Contains(s, sub) ==
    \E i \in 1..(Len(s) - Len(sub) + 1) : SubSeq(s, i, i + Len(sub) - 1) = sub

NC == <<"N", ".", "C", ".">>

\* ------------------------------------------------------------------------
\* Chord template bank (analysis.py): vectors over the pitch classes 0..11,
\* kept at index pc + 1, in units of 1/20 (1.0 is 20, 0.1 is 2, 0.05 is 1)
\* ------------------------------------------------------------------------
PITCH_CLASS_NAMES ==
    << <<"C">>, <<"C", "#">>, <<"D">>, <<"D", "#">>, <<"E">>, <<"F">>,
       <<"F", "#">>, <<"G">>, <<"G", "#">>, <<"A">>, <<"A", "#">>, <<"B">> >>

QUALITIES ==
    << [name |-> <<"m", "a", "j">>,      intervals |-> <<0, 4, 7>>],
       [name |-> <<"m", "i", "n">>,      intervals |-> <<0, 3, 7>>],
       [name |-> <<"7">>,                intervals |-> <<0, 4, 7, 10>>],
       [name |-> <<"m", "a", "j", "7">>, intervals |-> <<0, 4, 7, 11>>],
       [name |-> <<"m", "i", "n", "7">>, intervals |-> <<0, 3, 7, 10>>],
       [name |-> <<"d", "i", "m">>,      intervals |-> <<0, 3, 6>>],
       [name |-> <<"a", "u", "g">>,      intervals |-> <<0, 4, 8>>],
       [name |-> <<"s", "u", "s", "2">>, intervals |-> <<0, 2, 7>>],
       [name |-> <<"s", "u", "s", "4">>, intervals |-> <<0, 5, 7>>],
       [name |-> <<"6">>,                intervals |-> <<0, 4, 7, 9>>],
       [name |-> <<"m", "6">>,           intervals |-> <<0, 3, 7, 9>>] >>

\* the 12-vector with the entries of the function f, as an explicit tuple
MkVec(f) == <<f[1], f[2], f[3], f[4], f[5], f[6], f[7], f[8], f[9], f[10], f[11], f[12]>>

ZeroVec == <<0, 0, 0, 0, 0, 0, 0, 0, 0, 0, 0, 0>>

RECURSIVE DotFrom(_, _, _)
DotFrom(a, b, i) == IF i > 12 THEN 0 ELSE a[i] * b[i] + DotFrom(a, b, i + 1)
Dot(a, b) == DotFrom(a, b, 1)

VecAdd(a, b) == MkVec([i \in 1..12 |-> a[i] + b[i]])

RECURSIVE ApplyIntervals(_, _, _)
\* v[(root+iv) % 12] = 1.0; v[(root+iv+12) % 12] += 0.1; v[(root+iv+7) % 12] += 0.05
ApplyIntervals(v, root, ivs) ==
    IF ivs = <<>> THEN v
    ELSE LET iv == Head(ivs)
             v1 == [v  EXCEPT ![((root + iv) % 12) + 1] = 20]
             v2 == [v1 EXCEPT ![((root + iv + 12) % 12) + 1] = @ + 2]
             v3 == [v2 EXCEPT ![((root + iv + 7) % 12) + 1] = @ + 1]
         IN ApplyIntervals(v3, root, Tail(ivs))

ChordName(root, q) ==
    PITCH_CLASS_NAMES[root + 1] \o (IF q.name = <<"m", "a", "j">> THEN <<>> ELSE q.name)

\* one entry of CHORD_TEMPLATES; the code stores vec / (norm + 1e-9), the model
\* keeps the unnormalised vector and its squared norm
Template(root, q) ==
    LET v == ApplyIntervals(ZeroVec, root, q.intervals)
        w == [v EXCEPT ![root + 1] = @ + 4]
    IN [name |-> ChordName(root, q), vec |-> w, normsq |-> Dot(w, w)]

RECURSIVE TemplatesOfRoot(_, _, _)
\* for name, intervals in {...}.items(): ... CHORD_TEMPLATES.append(...)
TemplatesOfRoot(quals, root, i) ==
    IF i > Len(quals) THEN <<>>
    ELSE <<Template(root, quals[i])>> \o TemplatesOfRoot(quals, root, i + 1)

RECURSIVE TemplatesFrom(_, _)
\* for root in range(12): ...
TemplatesFrom(quals, root) ==
    IF root > 11 THEN <<>>
    ELSE TemplatesOfRoot(quals, root, 1) \o TemplatesFrom(quals, root + 1)

CHORD_TEMPLATES == TemplatesFrom(QUALITIES, 0)

\* ------------------------------------------------------------------------
\* Exact comparison of the scores.  A score is dot(vec, tpl) with both unit
\* vectors, i.e. d / (|v| * |t|); for one segment |v| is common, so scores
\* compare as the fractions w * d^2 / |t|^2 (w = 36 for the biased template,
\* 1.2^2 = 36/25, and 25 for the others).  p/q < r/s is decided by Euclid's
\* algorithm, which never multiplies two large numbers.
\* ------------------------------------------------------------------------
RECURSIVE FracLess(_, _, _, _)
FracLess(p, q, r, s) ==
    LET a == p \div q
        b == r \div s
        p2 == p % q
        r2 == r % s
    IN IF a # b THEN a < b
       ELSE IF r2 = 0 THEN FALSE
       ELSE IF p2 = 0 THEN TRUE
       ELSE FracLess(s, r2, q, p2)

\* a classifier without the persistence bias
BiasWeight_None(k, prev) == 25

\* scores[prev_chord_idx] *= 1.2
BiasWeight(k, prev) == IF k = prev THEN 36 ELSE 25

\* the biased score of template k as the fraction <<w * d^2, |t|^2>>
Score(tpls, vsum, prev, k) ==
    LET d == Dot(vsum, tpls[k].vec)
    IN <<BiasWeight(k, prev) * d * d, tpls[k].normsq>>

RECURSIVE ArgMaxIn(_, _, _, _, _)
\* np.argmax over the 1-based indices lo..hi, as <<index, score>>: the first index
\* of the largest score, so the later half wins only with a strictly larger score
ArgMaxIn(tpls, vsum, prev, lo, hi) ==
    IF lo = hi THEN <<lo, Score(tpls, vsum, prev, lo)>>
    ELSE LET mid == (lo + hi) \div 2
             l == ArgMaxIn(tpls, vsum, prev, lo, mid)
             r == ArgMaxIn(tpls, vsum, prev, mid + 1, hi)
         IN IF FracLess(l[2][1], l[2][2], r[2][1], r[2][2]) THEN r ELSE l

ArgMax(tpls, vsum, prev) == ArgMaxIn(tpls, vsum, prev, 1, Len(tpls))[1]

RECURSIVE FloorRoot(_, _, _, _)
\* the largest k in lo..hi with (k/100)^2 <= p/q, for lo satisfying it
FloorRoot(p, q, lo, hi) ==
    IF lo = hi THEN lo
    ELSE LET mid == (lo + hi + 1) \div 2
         IN IF FracLess(p, q, mid * mid, 10000)
            THEN FloorRoot(p, q, lo, mid - 1)
            ELSE FloorRoot(p, q, mid, hi)

\* float(np.dot(vec, tpl)) in hundredths, rounded down: the cosine d / sqrt(|v|^2 |t|^2)
Cosine(tpls, vsum, k) ==
    LET d == Dot(vsum, tpls[k].vec)
    IN FloorRoot(d * d, Dot(vsum, vsum) * tpls[k].normsq, 0, 200)

\* norm < 0.05 for the mean of count frames whose sum is vsum (chroma unit 1.0 = 1)
Silent(vsum, count) == 400 * Dot(vsum, vsum) < count * count

\* a classifier without the silence threshold: the zero vector scores 0 against
\* every template and argmax picks the first one
Classify_NoSilence(tpls, vsum, count, prev) ==
    LET best == ArgMax(tpls, vsum, prev)
    IN [chord |-> tpls[best].name,
        conf |-> IF Dot(vsum, vsum) = 0 THEN 0 ELSE Cosine(tpls, vsum, best),
        best_idx |-> best]

\* the body of the loop of _segment_chords for one averaged segment;
\* prev and best_idx are 1-based template indices, 0 standing for the code's -1
Classify(tpls, vsum, count, prev) ==
    IF Silent(vsum, count)
    THEN [chord |-> NC, conf |-> 0, best_idx |-> 0]
    ELSE LET best == ArgMax(tpls, vsum, prev)
         IN [chord |-> tpls[best].name,
             conf |-> Cosine(tpls, vsum, best),
             best_idx |-> best]

\* ------------------------------------------------------------------------
\* _segment_chords (analysis.py)
\* ------------------------------------------------------------------------
HOP_LENGTH == 512

\* librosa.frames_to_time(f, sr, hop_length) = f * hop_length / sr seconds
frames_to_time(f) == f * HOP_LENGTH
\* librosa.time_to_frames(t, sr, hop_length) = floor(t * sr / hop_length)
time_to_frames(t) == t \div HOP_LENGTH

Median3(a, b, c) == a + b + c - Max2(a, Max2(b, c)) - Min2(a, Min2(b, c))

\* scipy.ndimage.median_filter(chroma, size=(1, 3)): a median over three
\* neighbouring frames per pitch class, the ends reflected (mode='reflect')
MedianFrame(chroma, i) ==
    LET lo == chroma[Max2(1, i - 1)]
        hi == chroma[Min2(Len(chroma), i + 1)]
    IN MkVec([p \in 1..12 |-> Median3(lo[p], chroma[i][p], hi[p])])

RECURSIVE MedianRange(_, _, _)
\* the filtered frames lo..hi (1-based)
MedianRange(chroma, lo, hi) ==
    IF lo > hi THEN <<>>
    ELSE IF lo = hi THEN <<MedianFrame(chroma, lo)>>
    ELSE LET mid == (lo + hi) \div 2
         IN MedianRange(chroma, lo, mid) \o MedianRange(chroma, mid + 1, hi)

median_filter(chroma) == MedianRange(chroma, 1, Len(chroma))

RECURSIVE Arange(_, _, _)
\* np.arange(start, stop, step)
Arange(start, stop, step) ==
    IF start >= stop THEN <<>> ELSE <<start>> \o Arange(start + step, stop, step)

RECURSIVE SumRange(_, _, _)
\* the sum of the frames lo..hi (1-based)
SumRange(chroma, lo, hi) ==
    IF lo > hi THEN ZeroVec
    ELSE IF lo = hi THEN chroma[lo]
    ELSE LET mid == (lo + hi) \div 2
         IN VecAdd(SumRange(chroma, lo, mid), SumRange(chroma, mid + 1, hi))

\* the sum of chroma[:, s:e] over time (frames are 0-based, the slice clips at the end)
SumFrames(chroma, s, e) == SumRange(chroma, s + 1, Min2(e, Len(chroma)))

RECURSIVE SegmentLoop(_, _, _, _, _, _)
\* the for loop of _segment_chords, i is 1-based
SegmentLoop(tpls, chroma, bts, i, prev, segs) ==
    IF i > Len(bts) - 1 THEN segs
    ELSE LET s_frame == bts[i]
             e_frame == bts[i + 1]
         IN IF e_frame <= s_frame
            THEN SegmentLoop(tpls, chroma, bts, i + 1, prev, segs)
            ELSE LET count == Min2(e_frame, Len(chroma)) - s_frame
                     c == Classify(tpls, SumFrames(chroma, s_frame, e_frame), count, prev)
                 IN SegmentLoop(tpls, chroma, bts, i + 1, c.best_idx,
                        Append(segs, Seg(frames_to_time(s_frame), frames_to_time(e_frame),
                                         c.chord, Min2(100, c.conf))))

segment_chords(chroma, bts) ==
    LET filtered == median_filter(chroma)
        step == Max2(1, time_to_frames(SR \div 2))
        bts2 == IF Len(bts) < 2 THEN Arange(0, Len(chroma), step) ELSE bts
    IN SegmentLoop(CHORD_TEMPLATES, filtered, bts2, 1, 0, <<>>)

\* ------------------------------------------------------------------------
\* _estimate_key (analysis.py); the profiles are in hundredths
\* ------------------------------------------------------------------------
MAJOR_PROFILE == <<635, 223, 348, 233, 438, 409, 252, 519, 239, 366, 229, 288>>
MINOR_PROFILE == <<633, 268, 352, 538, 260, 353, 254, 475, 398, 269, 334, 317>>

\* np.roll(profile, tonic)
Roll(profile, tonic) == MkVec([i \in 1..12 |-> profile[((i - 1 - tonic) % 12) + 1]])

RECURSIVE VecSum(_)
VecSum(v) == IF v = <<>> THEN 0 ELSE Head(v) + VecSum(Tail(v))

RECURSIVE KeyLoop(_, _, _)
\* best is <<score, tonic, scale>>; a strictly larger score replaces it
KeyLoop(csum, tonic, best) ==
    IF tonic > 11 THEN best
    ELSE LET maj == Dot(csum, Roll(MAJOR_PROFILE, tonic))
             b1  == IF maj > best[1] THEN <<maj, tonic, "major">> ELSE best
             min == Dot(csum, Roll(MINOR_PROFILE, tonic))
             b2  == IF min > b1[1] THEN <<min, tonic, "minor">> ELSE b1
         IN KeyLoop(csum, tonic + 1, b2)

\* the time-mean of the chroma is its sum over the frames divided by their number;
\* the scores are compared on the sum
estimate_key(chroma) ==
    LET csum == SumFrames(chroma, 0, Len(chroma))
    IN IF VecSum(csum) = 0 THEN <<PITCH_CLASS_NAMES[1], "major">>
       ELSE LET best == KeyLoop(csum, 0, <<-1, 0, "major">>)  \* best_score = -1e9
            IN <<PITCH_CLASS_NAMES[best[2] + 1], best[3]>>

\* ------------------------------------------------------------------------
\* _simplify_chord (analysis.py)
\* ------------------------------------------------------------------------
\* a variant that shortens the suspended-fourth name
simplify_chord_Sus(chord_name) ==
    IF chord_name = NC THEN NC
    ELSE LET sharp  == Len(chord_name) > 1 /\ chord_name[2] = "#"
             root   == IF sharp THEN SubSeq(chord_name, 1, 2) ELSE SubSeq(chord_name, 1, 1)
             suffix == IF sharp THEN SubSeq(chord_name, 3, Len(chord_name))
                       ELSE SubSeq(chord_name, 2, Len(chord_name))
         IN IF StartsWith(suffix, <<"m", "i", "n">>)
               \/ (StartsWith(suffix, <<"m">>) /\ ~StartsWith(suffix, <<"m", "a", "j">>))
            THEN IF Contains(suffix, <<"7">>) \/ Contains(suffix, <<"6">>)
                 THEN root \o <<"m", "i", "n", "7">>
                 ELSE root \o <<"m", "i", "n">>
            ELSE IF StartsWith(suffix, <<"d", "i", "m">>) THEN root \o <<"d", "i", "m">>
            ELSE IF StartsWith(suffix, <<"a", "u", "g">>) THEN root \o <<"a", "u", "g">>
            ELSE IF Contains(suffix, <<"s", "u", "s", "2">>) THEN root \o <<"s", "u", "s", "2">>
            ELSE IF Contains(suffix, <<"s", "u", "s", "4">>) THEN root \o <<"s", "u", "s">>
            ELSE IF Contains(suffix, <<"7">>) THEN root \o <<"7">>
            ELSE root

simplify_chord(chord_name) ==
    IF chord_name = NC THEN NC
    ELSE LET sharp  == Len(chord_name) > 1 /\ chord_name[2] = "#"
             root   == IF sharp THEN SubSeq(chord_name, 1, 2) ELSE SubSeq(chord_name, 1, 1)
             suffix == IF sharp THEN SubSeq(chord_name, 3, Len(chord_name))
                       ELSE SubSeq(chord_name, 2, Len(chord_name))
         IN IF StartsWith(suffix, <<"m", "i", "n">>)
               \/ (StartsWith(suffix, <<"m">>) /\ ~StartsWith(suffix, <<"m", "a", "j">>))
            THEN IF Contains(suffix, <<"7">>) \/ Contains(suffix, <<"6">>)
                 THEN root \o <<"m", "i", "n", "7">>
                 ELSE root \o <<"m", "i", "n">>
            ELSE IF StartsWith(suffix, <<"d", "i", "m">>) THEN root \o <<"d", "i", "m">>
            ELSE IF StartsWith(suffix, <<"a", "u", "g">>) THEN root \o <<"a", "u", "g">>
            ELSE IF Contains(suffix, <<"s", "u", "s", "2">>) THEN root \o <<"s", "u", "s", "2">>
            ELSE IF Contains(suffix, <<"s", "u", "s", "4">>) THEN root \o <<"s", "u", "s", "4">>
            ELSE IF Contains(suffix, <<"7">>) THEN root \o <<"7">>
            ELSE root

\* ------------------------------------------------------------------------
\* analyze_file (analysis.py).  The decoded waveform is a sequence of runs
\* [kind, len]: len analysis frames whose normalised chroma column is
\* Palette[kind] (librosa's hpss, chroma_cqt and normalize are not modelled
\* beyond what they return).
\* ------------------------------------------------------------------------
PcVec(pcs) == MkVec([i \in 1..12 |-> IF (i - 1) \in pcs THEN 1 ELSE 0])

Palette ==
    [silence |-> ZeroVec,
     C1      |-> PcVec({0}),
     Cmaj    |-> PcVec({0, 4, 7}),
     Amin    |-> PcVec({9, 0, 4})]

RECURSIVE Repeat(_, _)
\* n copies of the frame v
Repeat(v, n) ==
    IF n = 0 THEN <<>>
    ELSE IF n = 1 THEN <<v>>
    ELSE Repeat(v, n \div 2) \o Repeat(v, n - n \div 2)

RECURSIVE ChromaOf(_)
ChromaOf(runs) ==
    IF runs = <<>> THEN <<>>
    ELSE Repeat(Palette[Head(runs).kind], Head(runs).len) \o ChromaOf(Tail(runs))

\* chroma.shape[1]
NumFrames(runs) == Len(ChromaOf(runs))

AllZero(runs) == \A i \in 1..Len(runs) : runs[i].kind = "silence"

RECURSIVE SortedSeq(_)
SortedSeq(S) ==
    IF S = {} THEN <<>>
    ELSE LET m == CHOOSE x \in S : \A z \in S : x <= z
         IN <<m>> \o SortedSeq(S \ {m})

BeatCands == {2, 22, 40}

\* librosa.beat.beat_track: on a signal without onsets (tempo 0.0, no beats);
\* otherwise some tempo and some strictly increasing frame indices below the
\* number of frames
beat_track(runs) ==
    IF AllZero(runs) THEN {[tempo |-> 0, beat_frames |-> <<>>]}
    ELSE {[tempo |-> 120, beat_frames |-> SortedSeq(B)] :
            B \in SUBSET {f \in BeatCands : f < Len(ChromaOf(runs))}}

RECURSIVE SimplifyAll(_)
\* simple_chords.append({**c, "chord": _simplify_chord(c["chord"])})
SimplifyAll(cs) ==
    IF cs = <<>> THEN <<>>
    ELSE <<[Head(cs) EXCEPT !.chord = simplify_chord(@)]>> \o SimplifyAll(Tail(cs))

\* analyze_file from the loaded waveform to the two smoothed lists
AnalyzeCore(runs, bt) ==
    LET chroma == ChromaOf(runs)
        ks == estimate_key(chroma)
        beat_frames == IF Len(bt.beat_frames) < 2
                       THEN Arange(0, Len(chroma), SR \div (2 * HOP_LENGTH))
                       ELSE bt.beat_frames
        chs == segment_chords(chroma, beat_frames)
        simple_chords == SimplifyAll(chs)
    IN [key |-> ks[1], scale |-> ks[2], beat_frames |-> beat_frames, chords |-> chs,
        merged_precise |-> smooth_chords(chs, Sec10(2)),
        merged_simple |-> smooth_chords(simple_chords, Sec10(8))]

\* _estimate_meter: 4 without a tempo, otherwise what the autocorrelation gives
MeterChoices(tempo) == IF tempo <= 0 THEN {4} ELSE {3, 4}

\* the result dictionary; sep is "off" (no separation asked), "failed" or "ok"
AnalyzeResult(core, tempo, meter, sep) ==
    IF core.merged_precise.st # "ok" THEN core.merged_precise
    ELSE IF core.merged_simple.st # "ok" THEN core.merged_simple
    ELSE LET r == [tempo |-> tempo, meter |-> meter, key |-> core.key, scale |-> core.scale,
                   chords |-> core.merged_precise.val,
                   simpleChords |-> core.merged_simple.val]
         IN Ok(IF sep = "ok" THEN r @@ [instrumentalPath |-> "instrumental.wav"] ELSE r)

MaxRuns == 2

RunKinds == {"silence", "C1", "Cmaj", "Amin"}
RunLens  == {1, 22}

Waveforms ==
    UNION { [1..n -> [kind : RunKinds, len : RunLens]] : n \in 0..MaxRuns }

\* librosa.load and the ffmpeg fallback both fail
AnalyzeLoadFails ==
    /\ y.st = "undecodable" /\ result.st = "none"
    /\ result' = Raised("RuntimeError")
    /\ UNCHANGED <<y, beats, segments, smoothVars, cacheVars, streamVars, pureVars, serverVars, sessionVars>>

\* if y.size == 0: return {"tempo": 0, "key": "C", "scale": "major", "chords": []}
AnalyzeEmpty ==
    /\ y.st = "ok" /\ y.val = <<>> /\ result.st = "none"
    /\ result' = Ok([tempo |-> 0, key |-> PITCH_CLASS_NAMES[1], scale |-> "major",
                     chords |-> <<>>])
    /\ UNCHANGED <<y, beats, segments, smoothVars, cacheVars, streamVars, pureVars, serverVars, sessionVars>>

AnalyzeFile ==
    /\ y.st = "ok" /\ y.val # <<>> /\ result.st = "none"
    /\ \E bt \in beat_track(y.val) :
         \E core \in {AnalyzeCore(y.val, bt)} :
            /\ beats' = Ok(core.beat_frames)
            /\ segments' = Ok(core.chords)
            /\ \E meter \in MeterChoices(bt.tempo), sep \in {"off", "failed", "ok"} :
                 result' = AnalyzeResult(core, bt.tempo, meter, sep)
    /\ UNCHANGED <<y, smoothVars, cacheVars, streamVars, pureVars, serverVars, sessionVars>>

NextAnalyze == AnalyzeLoadFails \/ AnalyzeEmpty \/ AnalyzeFile

\* ------------------------------------------------------------------------
\* chord_madmom.py: values, texts and the conversions between them.
\* Texts are sequences of characters; a JSON text is a sequence of tokens.
\* ------------------------------------------------------------------------
PyTuple(v) == [py |-> "tuple", items |-> v]
PyList(v)  == [py |-> "list", items |-> v]
PyInt(n)   == [num |-> n, type |-> "int"]
PyFloat(n) == [num |-> n, type |-> "float"]

Digits == <<"0", "1", "2", "3", "4", "5", "6", "7", "8", "9">>
Whitespace == {" ", "\n", "\t"}

RECURSIVE str_int(_)
\* str(n) for an int n
str_int(n) ==
    IF n < 0 THEN <<"-">> \o str_int(-n)
    ELSE IF n < 10 THEN <<Digits[n + 1]>>
    ELSE str_int(n \div 10) \o <<Digits[(n % 10) + 1]>>

RECURSIVE strip(_)
\* str.strip()
strip(s) ==
    IF s = <<>> THEN s
    ELSE IF Head(s) \in Whitespace THEN strip(Tail(s))
    ELSE IF s[Len(s)] \in Whitespace THEN strip(SubSeq(s, 1, Len(s) - 1))
    ELSE s

IsDigit(c) == \E d \in 1..10 : Digits[d] = c
DigitVal(c) == (CHOOSE d \in 1..10 : Digits[d] = c) - 1

RECURSIVE DigitsVal(_, _)
DigitsVal(s, acc) ==
    IF s = <<>> THEN acc ELSE DigitsVal(Tail(s), 10 * acc + DigitVal(Head(s)))

\* float(s) for the texts a tempo entry can hold: a run of digits is that
\* number, anything else (the empty text included) raises ValueError
parse_float(s) ==
    IF s # <<>> /\ \A i \in 1..Len(s) : IsDigit(s[i])
    THEN Ok(PyFloat(DigitsVal(s, 0)))
    ELSE Raised("ValueError")

Tok(t, v) == [tok |-> t, v |-> v]

RECURSIVE dump_items(_)
dump_items(data) ==
    IF data = <<>> THEN <<>>
    ELSE LET c == Head(data).items
         IN <<Tok("item", <<str_int(c[1]), str_int(c[2]), c[3]>>)>> \o dump_items(Tail(data))

\* json.dump(data, f) of a list of (start, end, label): tuples are written as arrays
json_dump(data) == <<Tok("[", <<>>)>> \o dump_items(data) \o <<Tok("]", <<>>)>>

RECURSIVE load_items(_)
load_items(toks) ==
    IF toks = <<>> THEN <<>>
    ELSE LET v == Head(toks).v
         IN <<PyList(<<DigitsVal(v[1], 0), DigitsVal(v[2], 0), v[3]>>)>>
            \o load_items(Tail(toks))

\* json.load(f): a text that is not a complete document raises
json_load(text) ==
    IF Len(text) >= 2 /\ text[1].tok = "[" /\ text[Len(text)].tok = "]"
       /\ \A i \in 2..(Len(text) - 1) : text[i].tok = "item"
    THEN Ok(load_items(SubSeq(text, 2, Len(text) - 1)))
    ELSE Raised("JSONDecodeError")

RECURSIVE Replace(_, _, _)
\* str.replace(sub, rep)
Replace(s, sub, rep) ==
    IF Len(s) < Len(sub) THEN s
    ELSE IF SubSeq(s, 1, Len(sub)) = sub
         THEN rep \o Replace(SubSeq(s, Len(sub) + 1, Len(s)), sub, rep)
         ELSE <<Head(s)>> \o Replace(Tail(s), sub, rep)

COLON_MAJ == <<":", "m", "a", "j">>
COLON_MIN == <<":", "m", "i", "n">>

RECURSIVE format_chords(_)
\* the loop of detect_chords_madmom over the recognised chords
format_chords(chs) ==
    IF chs = <<>> THEN <<>>
    ELSE LET c == Head(chs)
             label == IF Contains(c[3], COLON_MAJ) THEN Replace(c[3], COLON_MAJ, <<>>)
                      ELSE IF Contains(c[3], COLON_MIN) THEN Replace(c[3], COLON_MIN, <<"m">>)
                      ELSE c[3]
         IN <<PyTuple(<<c[1], c[2], label>>)>> \o format_chords(Tail(chs))

RECURSIVE from_cached(_)
\* [(c[0], c[1], c[2]) for c in cached]
from_cached(cached) ==
    IF cached = <<>> THEN <<>>
    ELSE LET c == Head(cached).items
         IN <<PyTuple(<<c[1], c[2], c[3]>>)>> \o from_cached(Tail(cached))

RECURSIVE Doubled(_, _)
\* while tempo < 70: tempo *= 2, on the fraction num / den with num > 0
Doubled(num, den) == IF num < 70 * den THEN Doubled(2 * num, den) ELSE num

\* a halving loop that runs at most once
Halved_Once(num, den) == IF num > 190 * den THEN 2 * den ELSE den

RECURSIVE Halved(_, _)
\* while tempo > 190: tempo /= 2, as the denominator of num / den
Halved(num, den) == IF num > 190 * den THEN Halved(num, 2 * den) ELSE den

\* round(x) for x = num / den >= 0: to the nearest int, ties to the even one
round(num, den) ==
    LET q == num \div den
        r == num % den
    IN IF 2 * r < den THEN q
       ELSE IF 2 * r > den THEN q + 1
       ELSE IF q % 2 = 0 THEN q ELSE q + 1

\* the range adjustment and rounding of detect_tempo_madmom for a raw tempo
\* of num / den bpm, num > 0
normalize_tempo(num, den) ==
    LET n == Doubled(num, den)
    IN round(n, Halved(n, den))

\* ------------------------------------------------------------------------
\* chord_madmom.py: the detectors behind the cache.  madmom's processors are
\* external; what they return for a file is fixed, and a call may raise.
\* Times are in tenths of a second, a raw tempo is the fraction <<num, den>>.
\* ------------------------------------------------------------------------
Files == {"f1", "f2"}

A_MIN == <<"A", ":", "m", "i", "n">>
C_MAJ == <<"C", ":", "m", "a", "j">>
G_MAJ == <<"G", ":", "m", "a", "j">>

\* CRFChordRecognitionProcessor()(CNNChordFeatureProcessor()(path))
madmom_chords(f) ==
    IF f = "f1"
    THEN << <<0, 20, A_MIN>>, <<20, 35, A_MIN>>, <<35, 50, C_MAJ>>, <<50, 60, <<"N">> >> >>
    ELSE << <<0, 30, G_MAJ>> >>

\* key_prediction_to_label(CNNKeyRecognitionProcessor()(path))
madmom_key(f) ==
    IF f = "f1" THEN <<"A", " ", "m", "i", "n", "o", "r">>
    ELSE <<"G", " ", "m", "a", "j", "o", "r">>

\* TempoEstimationProcessor(fps=200)(RNNBeatProcessor()(path)): the first
\* entries of the (tempo, strength) rows; f2 has no tempo candidate
madmom_tempos(f) == IF f = "f1" THEN << <<210, 1>> >> ELSE <<>>

C_MAJOR == <<"C", " ", "m", "a", "j", "o", "r">>

\* _get_file_hash: the digest of size and content, or of the name when the
\* file cannot be read
get_file_hash(f, readable) == IF readable THEN <<"content", f>> ELSE <<"name", f>>

Fingerprints == {get_file_hash(f, r) : f \in Files, r \in BOOLEAN}

NAMESPACES == {"chords", "keys", "tempo"}

\* a cache file: complete tells that the last write to it went through, wret
\* is what the call that wrote it last returned (None before any has)
AbsentEntry == [st |-> "absent", text |-> <<>>, complete |-> FALSE, wret |-> None]

Miss       == [kind |-> "miss"]
Return(v)  == [kind |-> "return", val |-> v]
Raise(e)   == [kind |-> "raise", exc |-> e]
Save(v, t) == [kind |-> "save", val |-> v, text |-> t]

\* a chords lookup that never finds an entry
load_from_cache_Never(entry, fault) == Raised("None")

\* _load_from_cache: None when there is no file or reading or parsing it fails
load_from_cache(entry, fault) ==
    IF entry.st = "absent" \/ fault THEN Raised("None") ELSE json_load(entry.text)

\* the cache lookup at the head of detect_chords_madmom, detect_key_madmom and
\* detect_tempo_madmom; fault: reading the existing file raises
ReadOutcome(ns, entry, fault) ==
    IF ns = "chords"
    THEN LET cached == load_from_cache(entry, fault)
         IN IF cached.st = "ok" THEN Return(from_cached(cached.val)) ELSE Miss
    ELSE IF ns = "keys"
    THEN IF entry.st = "absent" THEN Miss
         ELSE IF fault THEN Raise("OSError")
         ELSE Return(strip(entry.text))
    ELSE IF entry.st = "absent" \/ fault THEN Miss
         ELSE LET v == parse_float(strip(entry.text))
              IN IF v.st = "ok" THEN Return(v.val) ELSE Miss

\* the loops of detect_tempo_madmom never end on a raw tempo that is not
\* positive: doubling keeps it below 70
Diverge == [kind |-> "diverge"]

\* detect_tempo_madmom from `if len(tempos) > 0` on, for the rows tempos of
\* the tempo estimator
TempoOutcome(tempos) ==
    IF tempos = <<>> THEN Return(PyFloat(120))
    ELSE LET t == tempos[1]
         IN IF t[1] <= 0 THEN Diverge
            ELSE LET tempo == normalize_tempo(t[1], t[2])
                 IN Save(PyInt(tempo), str_int(tempo))

\* the detector part of the three functions; fails: the processor raises
DetectOutcome(ns, f, fails) ==
    IF ns = "chords"
    THEN IF fails THEN Raise("madmom")
         ELSE LET formatted_chords == format_chords(madmom_chords(f))
              IN Save(formatted_chords, json_dump(formatted_chords))
    ELSE IF ns = "keys"
    THEN IF fails THEN Return(C_MAJOR)
         ELSE Save(madmom_key(f), madmom_key(f))
    ELSE IF fails THEN Return(PyFloat(120))
         ELSE TempoOutcome(madmom_tempos(f))

\* what the call returns when storing v raises: _save_to_cache swallows the
\* exception, the try blocks of the key and tempo detectors return their default
SaveFailed(ns, v) ==
    IF ns = "chords" THEN Ok(v)
    ELSE IF ns = "keys" THEN Ok(C_MAJOR)
    ELSE Ok(PyFloat(120))

EndsWith(s, suf) == Len(s) >= Len(suf) /\ SubSeq(s, Len(s) - Len(suf) + 1, Len(s)) = suf
IndexOf(s, c) == CHOOSE i \in 1..Len(s) : s[i] = c /\ \A j \in 1..(i - 1) : s[j] # c

\* the key string of analyze_file_madmom split into <<key, scale>>
parse_key(key_str) ==
    IF Contains(key_str, <<" ">>)
    THEN LET i == IndexOf(key_str, " ")
         IN <<SubSeq(key_str, 1, i - 1), SubSeq(key_str, i + 1, Len(key_str))>>
    ELSE IF EndsWith(key_str, <<"m">>)
    THEN <<SubSeq(key_str, 1, Len(key_str) - 1), <<"m", "i", "n", "o", "r">> >>
    ELSE <<key_str, <<"m", "a", "j", "o", "r">> >>

\* _simplify_chord of chord_madmom.py
madmom_simplify_chord(chord_label) ==
    IF chord_label = <<"N">> \/ chord_label = NC THEN NC
    ELSE LET two    == Len(chord_label) > 1 /\ chord_label[2] \in {"#", "b"}
             root   == IF two THEN SubSeq(chord_label, 1, 2) ELSE SubSeq(chord_label, 1, 1)
             suffix == IF two THEN SubSeq(chord_label, 3, Len(chord_label))
                       ELSE SubSeq(chord_label, 2, Len(chord_label))
         IN IF Contains(suffix, <<"d", "i", "m">>) THEN root \o <<"d", "i", "m">>
            ELSE IF Contains(suffix, <<"a", "u", "g">>) THEN root \o <<"a", "u", "g">>
            ELSE IF Contains(suffix, <<"m">>) /\ ~Contains(suffix, <<"m", "a", "j">>)
                 THEN root \o <<"m">>
            ELSE root

\* "confidence": 0.95, in hundredths
MADMOM_CONFIDENCE == 95

RECURSIVE FastSegments(_, _)
\* the loop of analyze_file_madmom; simple selects the simplified labels
FastSegments(chs, simple) ==
    IF chs = <<>> THEN <<>>
    ELSE LET c == Head(chs).items
             label == IF simple THEN madmom_simplify_chord(c[3]) ELSE c[3]
         IN <<Seg(c[1], c[2], label, MADMOM_CONFIDENCE)>> \o FastSegments(Tail(chs), simple)

\* the result dictionary of analyze_file_madmom
FastResult(chs, key_str, tempo) ==
    LET ks == parse_key(key_str)
    IN [tempo |-> tempo, meter |-> 4, key |-> ks[1], scale |-> ks[2],
        chords |-> merge_consecutive(FastSegments(chs, FALSE)),
        simpleChords |-> merge_consecutive(FastSegments(chs, TRUE))]

\* ------------------------------------------------------------------------
\* analyze_file_madmom on the threads of the request handlers.  A thread runs
\* the three cached detector calls in turn, each in steps: the lookup, the
\* detector up to opening the cache file for writing (which truncates it),
\* and the write.
\* ------------------------------------------------------------------------
\* MAX_CONCURRENT_ANALYSIS of main.py: the threads that can analyze at once
MAX_CONCURRENT_ANALYSIS == 2

Procs == 1..MAX_CONCURRENT_ANALYSIS

MaxRequests == 2
MaxFaults == 1

\* the locals of a call that is about to start
NoCall ==
    [fp |-> <<>>, saw |-> AbsentEntry, read_fault |-> FALSE, prior |-> FALSE,
     invoked |-> FALSE, detected |-> FALSE, value |-> None, text |-> <<>>, wrote |-> "no"]

Idle ==
    [pc |-> "idle", ns |-> "-", file |-> "-", call |-> NoCall,
     chords |-> None, key_str |-> None, result |-> None]

Fault(b) == IF b THEN 1 ELSE 0

\* the record of a finished call
CallRecord(pr, call, ret) ==
    [ns |-> pr.ns, file |-> pr.file, call |-> call, ret |-> ret]

\* the thread after its current call has returned ret or raised it: the next
\* call starts or, after the tempo, analyze_file_madmom builds and returns its result
AfterCall(pr, ret) ==
    IF ret.st # "ok" THEN [Idle EXCEPT !.result = ret]
    ELSE IF pr.ns = "chords"
    THEN [pr EXCEPT !.chords = ret, !.ns = "keys", !.pc = "read", !.call = NoCall]
    ELSE IF pr.ns = "keys"
    THEN [pr EXCEPT !.key_str = ret, !.ns = "tempo", !.pc = "read", !.call = NoCall]
    ELSE [Idle EXCEPT !.result = Ok(FastResult(pr.chords.val, pr.key_str.val, ret.val))]

\* the call of thread p ends with ret
Finished(p, call, ret) ==
    /\ procs' = [procs EXCEPT ![p] = AfterCall(procs[p], ret)]
    /\ last' = Ok(CallRecord(procs[p], call, ret))
    /\ done' = IF ret.st = "ok" THEN done \cup {<<procs[p].ns, procs[p].file>>} ELSE done

\* a request handler calls analyze_file_madmom(f)
StartRequest(p, f) ==
    /\ procs[p].pc = "idle" /\ requests > 0
    /\ requests' = requests - 1
    /\ procs' = [procs EXCEPT ![p] =
                   IF MADMOM_AVAILABLE
                   THEN [Idle EXCEPT !.pc = "read", !.ns = "chords", !.file = f]
                   ELSE [Idle EXCEPT !.result = Raised("ImportError")]]
    /\ UNCHANGED <<MADMOM_AVAILABLE, cache, last, done, faults, smoothVars, analyzeVars, streamVars, pureVars, serverVars, sessionVars>>

\* _get_file_hash and the cache lookup of the current detect_*_madmom call
Lookup(p) ==
    /\ procs[p].pc = "read"
    /\ \E readable \in BOOLEAN, fault \in BOOLEAN :
         LET pr    == procs[p]
             fp    == get_file_hash(pr.file, readable)
             entry == cache[pr.ns][fp]
             out   == ReadOutcome(pr.ns, entry, fault)
             call  == [NoCall EXCEPT
                         !.fp = fp, !.saw = entry, !.read_fault = fault,
                         !.prior = <<pr.ns, pr.file>> \in done]
         IN /\ fault => entry.st = "file"
            /\ faults + Fault(~readable) + Fault(fault) <= MaxFaults
            /\ faults' = faults + Fault(~readable) + Fault(fault)
            /\ IF out.kind = "return" THEN Finished(p, call, Ok(out.val))
               ELSE IF out.kind = "raise" THEN Finished(p, call, Raised(out.exc))
               ELSE /\ procs' = [procs EXCEPT ![p].pc = "detect", ![p].call = call]
                    /\ UNCHANGED <<last, done>>
    /\ UNCHANGED <<MADMOM_AVAILABLE, cache, requests, smoothVars, analyzeVars, streamVars, pureVars, serverVars, sessionVars>>

\* the madmom processors of the current call run and, when they give a value,
\* the cache file is opened for writing (open(cache_file, 'w') and
\* cache_file.write_text create or truncate it)
Detect(p) ==
    /\ procs[p].pc = "detect"
    /\ \E fails \in BOOLEAN, denied \in BOOLEAN :
         LET pr   == procs[p]
             out  == DetectOutcome(pr.ns, pr.file, fails)
             call == [pr.call EXCEPT !.invoked = TRUE, !.detected = ~fails]
         IN /\ denied => out.kind = "save"
            /\ faults + Fault(fails) + Fault(denied) <= MaxFaults
            /\ faults' = faults + Fault(fails) + Fault(denied)
            /\ IF out.kind = "return"
               THEN Finished(p, call, Ok(out.val)) /\ UNCHANGED cache
               ELSE IF out.kind = "raise"
               THEN Finished(p, call, Raised(out.exc)) /\ UNCHANGED cache
               ELSE IF denied
               THEN /\ Finished(p, [call EXCEPT !.value = Ok(out.val), !.wrote = "failed"],
                                SaveFailed(pr.ns, out.val))
                    /\ UNCHANGED cache
               ELSE /\ procs' = [procs EXCEPT ![p].pc = "write",
                                   ![p].call = [call EXCEPT !.value = Ok(out.val),
                                                            !.text = out.text]]
                    /\ cache' = [cache EXCEPT ![pr.ns][pr.call.fp] =
                                   [st |-> "file", text |-> <<>>, complete |-> FALSE,
                                    wret |-> @.wret]]
                    /\ UNCHANGED <<last, done>>
    /\ UNCHANGED <<MADMOM_AVAILABLE, requests, smoothVars, analyzeVars, streamVars, pureVars, serverVars, sessionVars>>

\* the text is written and the file closed; a write that fails leaves a
\* prefix of the text behind
Write(p) ==
    /\ procs[p].pc = "write"
    /\ LET pr == procs[p]
           fp == pr.call.fp
       IN \/ /\ cache' = [cache EXCEPT ![pr.ns][fp] =
                            [st |-> "file", text |-> pr.call.text, complete |-> TRUE,
                             wret |-> pr.call.value]]
             /\ Finished(p, [pr.call EXCEPT !.wrote = "ok"], pr.call.value)
             /\ UNCHANGED faults
          \/ /\ faults < MaxFaults
             /\ faults' = faults + 1
             /\ \E cut \in {0, Len(pr.call.text) \div 2} :
                  cache' = [cache EXCEPT ![pr.ns][fp] =
                              [st |-> "file", text |-> SubSeq(pr.call.text, 1, cut),
                               complete |-> FALSE,
                               wret |-> SaveFailed(pr.ns, pr.call.value.val)]]
             /\ Finished(p, [pr.call EXCEPT !.wrote = "failed"],
                         SaveFailed(pr.ns, pr.call.value.val))
    /\ UNCHANGED <<MADMOM_AVAILABLE, requests, smoothVars, analyzeVars, streamVars, pureVars, serverVars, sessionVars>>

NextCache ==
    \E p \in Procs :
        \/ \E f \in Files : StartRequest(p, f)
        \/ Lookup(p)
        \/ Detect(p)
        \/ Write(p)

\* ------------------------------------------------------------------------
\* websocket_chords.py: detect_chord_from_audio.  The samples are given as
\* the chroma frames librosa computes from them (one frame per 512 samples);
\* the bank has 9 qualities and no overtones.
\* ------------------------------------------------------------------------
WS_QUALITIES ==
    << [name |-> <<"m", "a", "j">>,      intervals |-> <<0, 4, 7>>],
       [name |-> <<"m", "i", "n">>,      intervals |-> <<0, 3, 7>>],
       [name |-> <<"7">>,                intervals |-> <<0, 4, 7, 10>>],
       [name |-> <<"m", "a", "j", "7">>, intervals |-> <<0, 4, 7, 11>>],
       [name |-> <<"m", "i", "n", "7">>, intervals |-> <<0, 3, 7, 10>>],
       [name |-> <<"d", "i", "m">>,      intervals |-> <<0, 3, 6>>],
       [name |-> <<"a", "u", "g">>,      intervals |-> <<0, 4, 8>>],
       [name |-> <<"s", "u", "s", "2">>, intervals |-> <<0, 2, 7>>],
       [name |-> <<"s", "u", "s", "4">>, intervals |-> <<0, 5, 7>>] >>

RECURSIVE WsApplyIntervals(_, _, _)
\* v[(root + iv) % 12] = 1.0
WsApplyIntervals(v, root, ivs) ==
    IF ivs = <<>> THEN v
    ELSE WsApplyIntervals([v EXCEPT ![((root + Head(ivs)) % 12) + 1] = 20], root, Tail(ivs))

\* one entry of the streaming CHORD_TEMPLATES, unnormalised as in Template
WsTemplate(root, q) ==
    LET v == WsApplyIntervals(ZeroVec, root, q.intervals)
        w == [v EXCEPT ![root + 1] = @ + 4]
    IN [name |-> ChordName(root, q), vec |-> w, normsq |-> Dot(w, w)]

RECURSIVE WsTemplatesOfRoot(_, _)
WsTemplatesOfRoot(root, i) ==
    IF i > Len(WS_QUALITIES) THEN <<>>
    ELSE <<WsTemplate(root, WS_QUALITIES[i])>> \o WsTemplatesOfRoot(root, i + 1)

RECURSIVE WsTemplatesFrom(_)
WsTemplatesFrom(root) ==
    IF root > 11 THEN <<>>
    ELSE WsTemplatesOfRoot(root, 1) \o WsTemplatesFrom(root + 1)

WS_CHORD_TEMPLATES == WsTemplatesFrom(0)

Chord(name, conf) == [chord |-> name, confidence |-> conf]

\* detect_chord_from_audio; raises: the chroma computation raises
detect_chord_from_audio(runs, raises) ==
    IF 10 * NumFrames(runs) * HOP_LENGTH < SR THEN Chord(NC, 0)
    ELSE IF raises THEN Chord(NC, 0)
    ELSE LET chroma == ChromaOf(runs)
             vsum   == SumFrames(chroma, 0, Len(chroma))
         IN IF Silent(vsum, Len(chroma)) THEN Chord(NC, 0)
            ELSE LET best_idx == ArgMax(WS_CHORD_TEMPLATES, vsum, 0)
                 IN Chord(WS_CHORD_TEMPLATES[best_idx].name,
                          Min2(100, Cosine(WS_CHORD_TEMPLATES, vsum, best_idx)))

StreamDetect ==
    /\ audio_data.st = "ok" /\ detected.st = "none"
    /\ \E raises \in BOOLEAN :
         detected' = Ok(detect_chord_from_audio(audio_data.val, raises))
    /\ UNCHANGED <<audio_data, smoothVars, analyzeVars, cacheVars, pureVars, serverVars, sessionVars>>

NextStream == StreamDetect

\* ------------------------------------------------------------------------
\* main.py: the handlers of the heavy requests.  The endpoints are plain
\* functions, so each request runs on a thread of the pool; all four take
\* analysis_semaphore around their work.
\* ------------------------------------------------------------------------
MaxHandlers == 3
Handlers == 1..MaxHandlers

ANALYZE_ENDPOINTS  == {"analyze", "analyze_youtube"}
SEPARATE_ENDPOINTS == {"separate_audio", "separate_audio_6stems"}
ENDPOINTS == ANALYZE_ENDPOINTS \cup SEPARATE_ENDPOINTS

\* a handler before its request has come
IdleHandler ==
    [pc |-> "idle", endpoint |-> "", use_madmom |-> FALSE, separate_vocals |-> FALSE,
     engine |-> "", status |-> 0, error |-> ""]

\* a handler that has sent its response
Responded(status, error) ==
    [IdleHandler EXCEPT !.pc = "done", !.status = status, !.error = error]

\* an engine choice that does not look at MADMOM_AVAILABLE
SelectEngine_Requested(use_madmom, separate_vocals, available) ==
    IF ~use_madmom \/ separate_vocals THEN "analyze_file" ELSE "analyze_file_madmom"

\* the if/elif chain of analyze and analyze_youtube
SelectEngine(use_madmom, separate_vocals, available) ==
    IF ~use_madmom THEN "analyze_file"
    ELSE IF separate_vocals THEN "analyze_file"
    ELSE IF available THEN "analyze_file_madmom"
    ELSE "analyze_file"

\* what the chosen function does: analyze_file_madmom raises ImportError when
\* madmom is missing, and any of them may fail
EngineOutcome(engine, available, fails) ==
    IF engine = "analyze_file_madmom" /\ ~available THEN Raised("ImportError")
    ELSE IF fails THEN Raised("Exception")
    ELSE Ok(engine)

\* a semaphore that admits whatever its counter says
CanAcquire_Always(value) == TRUE

\* threading.Semaphore.acquire blocks while the counter is zero
CanAcquire(value) == value > 0

\* a with statement that keeps the permit when the block is left
Released_Kept(value) == value

\* with analysis_semaphore: __exit__ runs release() however the block is left
Released(value) == value + 1

\* a request comes in; analyze_youtube, separate_audio and
\* separate_audio_6stems validate it before they take the semaphore
Receive(h, endpoint) ==
    /\ handlers[h].pc = "idle"
    /\ h > 1 => handlers[h - 1].pc # "idle"
    /\ \E rejected \in (IF endpoint = "analyze" THEN {0}
                         ELSE IF endpoint = "analyze_youtube" THEN {0, 429, 400}
                         ELSE {0, 400}) :
         handlers' = [handlers EXCEPT ![h] =
            IF rejected = 0
            THEN [IdleHandler EXCEPT !.pc = "waiting", !.endpoint = endpoint]
            ELSE Responded(rejected, "HTTPException")]
    /\ UNCHANGED <<analysis_semaphore, smoothVars, analyzeVars, cacheVars, streamVars, pureVars, sessionVars, separatorVars>>

\* with analysis_semaphore: __enter__
Acquire(h) ==
    /\ handlers[h].pc = "waiting"
    /\ CanAcquire(analysis_semaphore)
    /\ analysis_semaphore' = analysis_semaphore - 1
    /\ handlers' = [handlers EXCEPT ![h].pc = "inside"]
    /\ UNCHANGED <<smoothVars, analyzeVars, cacheVars, streamVars, pureVars, sessionVars, separatorVars>>

\* the handler reaches its heavy call: the analyze endpoints choose the
\* engine from the request's flags
StartWork(h) ==
    /\ handlers[h].pc = "inside"
    /\ IF handlers[h].endpoint \in ANALYZE_ENDPOINTS
       THEN \E use_madmom \in BOOLEAN, separate_vocals \in BOOLEAN :
              handlers' = [handlers EXCEPT ![h] =
                 [@ EXCEPT !.pc = "working",
                           !.use_madmom = use_madmom,
                           !.separate_vocals = separate_vocals,
                           !.engine = SelectEngine(use_madmom, separate_vocals,
                                                   MADMOM_AVAILABLE)]]
       ELSE handlers' = [handlers EXCEPT ![h] =
                 [@ EXCEPT !.pc = "working",
                           !.engine = IF handlers[h].endpoint = "separate_audio"
                                      THEN "separate_audio_full"
                                      ELSE "separate_audio_stems"]]
    /\ UNCHANGED <<analysis_semaphore, smoothVars, analyzeVars, cacheVars, streamVars, pureVars, sessionVars, separatorVars>>

\* an exit before the heavy call: no filename (analyze), no audio
\* (analyze_youtube), or the upload cannot be copied; the with statement
\* releases the permit
Abort(h) ==
    /\ handlers[h].pc = "inside"
    /\ \E status \in {400, 500} :
         /\ status = 400 => handlers[h].endpoint = "analyze"
         /\ handlers' = [handlers EXCEPT ![h] =
                Responded(status, "HTTPException")]
    /\ analysis_semaphore' = Released(analysis_semaphore)
    /\ UNCHANGED <<smoothVars, analyzeVars, cacheVars, streamVars, pureVars, sessionVars, separatorVars>>

\* the heavy call returns or raises, the response is built and the with
\* statement releases the permit
Leave(h) ==
    /\ handlers[h].pc = "working"
    /\ \E fails \in BOOLEAN :
         LET out == EngineOutcome(handlers[h].engine, MADMOM_AVAILABLE, fails)
         IN handlers' = [handlers EXCEPT ![h] =
               IF out.st = "ok" THEN Responded(200, "")
               ELSE Responded(500, out.st)]
    /\ analysis_semaphore' = Released(analysis_semaphore)
    /\ UNCHANGED <<smoothVars, analyzeVars, cacheVars, streamVars, pureVars, sessionVars, separatorVars>>

NextServer ==
    \E h \in Handlers :
       \/ \E endpoint \in ENDPOINTS : Receive(h, endpoint)
       \/ Acquire(h)
       \/ StartWork(h)
       \/ Abort(h)
       \/ Leave(h)

\* ------------------------------------------------------------------------
\* analysis.py: the process-wide separator models.  The getters run on the
\* handler threads, at most MAX_CONCURRENT_ANALYSIS at once; a constructor
\* loads a model, so other threads run while it does.  Instances are numbered
\* in the order they are built, 0 is None.
\* ------------------------------------------------------------------------
SEPARATORS == {"_DEMUCS_WRAPPER", "_DEMUCS_6STEM_WRAPPER"}

\* a thread outside the getters; got holds the instance each getter returned
\* to it last
IdleCaller == [pc |-> "idle", getter |-> "", made |-> 0, got |-> [g \in SEPARATORS |-> 0]]

\* a handler thread calls _get_separator() or _get_separator_6stem()
GetterCall(p, g) ==
    /\ callers[p].pc = "idle"
    /\ callers' = [callers EXCEPT ![p].pc = "test", ![p].getter = g]
    /\ UNCHANGED <<wrappers, constructed, analysis_semaphore, handlers, smoothVars, analyzeVars, cacheVars, streamVars, pureVars, sessionVars>>

\* if _DEMUCS_WRAPPER is None:
GetterTest(p) ==
    /\ callers[p].pc = "test"
    /\ callers' = [callers EXCEPT ![p].pc =
                     IF wrappers[callers[p].getter] = 0 THEN "construct" ELSE "return"]
    /\ UNCHANGED <<wrappers, constructed, analysis_semaphore, handlers, smoothVars, analyzeVars, cacheVars, streamVars, pureVars, sessionVars>>

\* DemucsSeparator() / DemucsSeparator6Stem(): the model is loaded, or
\* get_model raises and the getter is left with the exception
GetterConstruct(p) ==
    /\ callers[p].pc = "construct"
    /\ \E fails \in BOOLEAN :
         IF fails
         THEN /\ callers' = [callers EXCEPT ![p].pc = "idle", ![p].getter = ""]
              /\ UNCHANGED constructed
         ELSE /\ constructed' = [constructed EXCEPT ![callers[p].getter] = @ + 1]
              /\ callers' = [callers EXCEPT ![p].pc = "assign",
                                            ![p].made = constructed[callers[p].getter] + 1]
    /\ UNCHANGED <<wrappers, analysis_semaphore, handlers, smoothVars, analyzeVars, cacheVars, streamVars, pureVars, sessionVars>>

\* _DEMUCS_WRAPPER = <the new instance>
GetterAssign(p) ==
    /\ callers[p].pc = "assign"
    /\ wrappers' = [wrappers EXCEPT ![callers[p].getter] = callers[p].made]
    /\ callers' = [callers EXCEPT ![p].pc = "return", ![p].made = 0]
    /\ UNCHANGED <<constructed, analysis_semaphore, handlers, smoothVars, analyzeVars, cacheVars, streamVars, pureVars, sessionVars>>

\* return _DEMUCS_WRAPPER
GetterReturn(p) ==
    /\ callers[p].pc = "return"
    /\ callers' = [callers EXCEPT ![p] =
                     [IdleCaller EXCEPT !.got =
                        [callers[p].got EXCEPT ![callers[p].getter] = wrappers[callers[p].getter]]]]
    /\ UNCHANGED <<wrappers, constructed, analysis_semaphore, handlers, smoothVars, analyzeVars, cacheVars, streamVars, pureVars, sessionVars>>

NextSeparator ==
    \E p \in Procs :
       \/ \E g \in SEPARATORS : GetterCall(p, g)
       \/ GetterTest(p)
       \/ GetterConstruct(p)
       \/ GetterAssign(p)
       \/ GetterReturn(p)

\* ------------------------------------------------------------------------
\* websocket_chords.py: the streaming sessions.  Each connection runs the
\* coroutine websocket_chord_endpoint; the coroutines share the map
\* chord_stream_manager.active_connections, keyed by the client_id of the
\* URL.  The samples a connection has decoded are numbered from 0, and its
\* audio_buffer is the range <<first, next>> of the numbers it holds.
\* ------------------------------------------------------------------------
MaxMsgs == 3

Conns     == {1, 2}
ClientIds == {"a", "b"}

\* max_samples = 22050
MAX_SAMPLES == 22050
\* if len(audio_buffer) >= 11025
MIN_SAMPLES == 11025

BufLen(buf) == buf[2] - buf[1]

\* cleared_at is the number of the first sample after the last clear, dropped
\* the number of chunks the except clause has dropped
NewSession ==
    [pc |-> "new", client_id |-> "", audio_buffer |-> <<0, 0>>, cleared_at |-> 0,
     dropped |-> 0]

\* the "data" of an audio_chunk message: the kind of text and the number of
\* bytes its base64 characters encode
ChunkSizes == {1, 11024, 11025, 22051}
Payloads ==
    {[data |-> "base64", nbytes |-> 2 * n] : n \in ChunkSizes}
        \cup {[data |-> "base64", nbytes |-> 3]}
        \cup {[data |-> "non_alphabet", nbytes |-> k] : k \in {0, 4}}
        \cup {[data |-> "bad_padding", nbytes |-> 0], [data |-> "empty", nbytes |-> 0]}

Messages ==
    {[type |-> "audio_chunk", data |-> d] : d \in Payloads}
        \cup {[type |-> "ping"], [type |-> "clear"]}

\* base64.b64decode(audio_b64): characters outside the alphabet are
\* discarded, wrong padding raises
b64decode(payload) ==
    IF payload.data = "bad_padding" THEN Raised("binascii.Error")
    ELSE Ok(payload.nbytes)

\* a conversion that ignores an odd last byte
frombuffer_Truncating(nbytes) == Ok(nbytes \div 2)

\* np.frombuffer(audio_bytes, dtype=np.int16): the number of samples
frombuffer(nbytes) ==
    IF nbytes % 2 # 0 THEN Raised("ValueError") ELSE Ok(nbytes \div 2)

\* np.concatenate([audio_buffer, audio_chunk])
Concatenate(buf, n) == <<buf[1], buf[2] + n>>

\* a cap that keeps the oldest samples
KeepLast_Oldest(buf) ==
    IF BufLen(buf) > MAX_SAMPLES THEN <<buf[1], buf[1] + MAX_SAMPLES>> ELSE buf

\* if len(audio_buffer) > max_samples: audio_buffer = audio_buffer[-max_samples:]
KeepLast(buf) ==
    IF BufLen(buf) > MAX_SAMPLES THEN <<buf[2] - MAX_SAMPLES, buf[2]>> ELSE buf

\* a detector that runs on any non-empty buffer
ShouldDetect_Any(buf) == BufLen(buf) > 0

ShouldDetect(buf) == BufLen(buf) >= MIN_SAMPLES

\* a clear that keeps the buffer
Cleared_Kept(buf) == buf

\* audio_buffer = np.array([], dtype=np.float32)
Cleared(buf) == <<buf[2], buf[2]>>

ChordEvent(buf, timestamp) == [type |-> "chord", timestamp |-> timestamp, of |-> buf]

\* the audio_chunk branch: the new buffer, the events handed to send_chord
\* and the exception the except clause printed
audio_chunk(buf, payload, timestamp) ==
    IF payload.data = "empty"
    THEN [buffer |-> buf, appended |-> 0, emitted |-> <<>>, error |-> ""]
    ELSE LET audio_bytes == b64decode(payload)
         IN IF audio_bytes.st # "ok"
            THEN [buffer |-> buf, appended |-> 0, emitted |-> <<>>, error |-> audio_bytes.st]
            ELSE LET chunk == frombuffer(audio_bytes.val)
                 IN IF chunk.st # "ok"
                    THEN [buffer |-> buf, appended |-> 0, emitted |-> <<>>,
                          error |-> chunk.st]
                    ELSE LET b == KeepLast(Concatenate(buf, chunk.val))
                         IN [buffer  |-> b,
                             appended |-> chunk.val,
                             emitted |-> IF ShouldDetect(b)
                                         THEN <<ChordEvent(b, timestamp)>> ELSE <<>>,
                             error   |-> ""]

\* one pass of the receive loop on message msg
Handle(buf, msg, timestamp) ==
    IF msg.type = "audio_chunk" THEN audio_chunk(buf, msg.data, timestamp)
    ELSE IF msg.type = "ping"
    THEN [buffer |-> buf, appended |-> 0, emitted |-> <<[type |-> "pong"]>>, error |-> ""]
    ELSE [buffer |-> Cleared(buf), appended |-> 0, emitted |-> <<[type |-> "cleared"]>>,
          error |-> ""]

\* chord_stream_manager.connect
Connect(c, client_id) ==
    /\ sessions[c].pc = "new"
    /\ sessions' = [sessions EXCEPT ![c] = [NewSession EXCEPT !.pc = "open",
                                                               !.client_id = client_id]]
    /\ active_connections' = [active_connections EXCEPT ![client_id] = c]
    /\ UNCHANGED <<handled, msgs, smoothVars, analyzeVars, cacheVars, streamVars,
                   pureVars, serverVars>>

\* receive_json returns a message; send_chord sends to the socket registered
\* for the client id, and unregisters the id when the send fails
Message(c) ==
    /\ sessions[c].pc = "open"
    /\ msgs < MaxMsgs
    /\ \E msg \in Messages, send_fails \in BOOLEAN :
         LET id     == sessions[c].client_id
             out    == Handle(sessions[c].audio_buffer, msg, msgs + 1)
             target == active_connections[id]
             sends  == out.emitted # <<>> /\ target # 0
         IN /\ send_fails => sends
            /\ sessions' = [sessions EXCEPT ![c] =
                  [@ EXCEPT !.audio_buffer = out.buffer,
                            !.cleared_at = IF msg.type = "clear"
                                           THEN out.buffer[2]
                                           ELSE sessions[c].cleared_at,
                            !.dropped = IF out.error # ""
                                        THEN sessions[c].dropped + 1
                                        ELSE sessions[c].dropped]]
            /\ active_connections' =
                  IF send_fails THEN [active_connections EXCEPT ![id] = 0]
                  ELSE active_connections
            /\ handled' = Ok([conn |-> c, msg |-> msg, timestamp |-> msgs + 1,
                              before |-> sessions[c].audio_buffer,
                              after |-> out.buffer,
                              appended |-> out.appended,
                              cleared_at |-> sessions[c].cleared_at, dropped |-> sessions[c].dropped,
                              emitted |-> out.emitted, error |-> out.error,
                              delivered_on |-> IF sends /\ ~send_fails THEN target ELSE 0,
                              removed |-> IF send_fails THEN target ELSE 0,
                              registered |-> active_connections'[id] = c])
    /\ msgs' = msgs + 1
    /\ UNCHANGED <<smoothVars, analyzeVars, cacheVars, streamVars, pureVars, serverVars>>

\* receive_json raises WebSocketDisconnect: chord_stream_manager.disconnect
Disconnect(c) ==
    /\ sessions[c].pc = "open"
    /\ LET id == sessions[c].client_id
       IN /\ active_connections' = [active_connections EXCEPT ![id] = 0]
          /\ handled' = Ok([conn |-> c, msg |-> [type |-> "disconnect"], timestamp |-> 0,
                            before |-> sessions[c].audio_buffer,
                            after |-> sessions[c].audio_buffer,
                            appended |-> 0,
                            cleared_at |-> sessions[c].cleared_at, dropped |-> sessions[c].dropped,
                            emitted |-> <<>>, error |-> "WebSocketDisconnect",
                            delivered_on |-> 0,
                            removed |-> active_connections[id],
                            registered |-> FALSE])
    /\ sessions' = [sessions EXCEPT ![c].pc = "closed"]
    /\ UNCHANGED <<msgs, smoothVars, analyzeVars, cacheVars, streamVars, pureVars, serverVars>>

NextSession ==
    \E c \in Conns :
       \/ \E client_id \in ClientIds : Connect(c, client_id)
       \/ Message(c)
       \/ Disconnect(c)

\* ------------------------------------------------------------------------
\* Pure functions applied to inputs drawn from bounded sets
\* ------------------------------------------------------------------------
MaxRawTempo == 400

\* raw tempos as fractions num / den, zero and negative ones included
RawTempos == {<<num, den>> : num \in (0 - 2)..MaxRawTempo, den \in {1, 2, 3}}

TempoArgs ==
    {[fn |-> "detect_tempo_madmom", tempos |-> <<t>>] : t \in RawTempos}
        \cup {[fn |-> "detect_tempo_madmom", tempos |-> <<>>]}

\* detect_tempo_madmom on a cache miss, from the estimator's rows on
ApplyTempo ==
    /\ arg.st = "ok" /\ returned = None
    /\ arg.val.fn = "detect_tempo_madmom"
    /\ returned' = Ok(TempoOutcome(arg.val.tempos))
    /\ UNCHANGED <<arg, smoothVars, analyzeVars, cacheVars, streamVars, serverVars, sessionVars>>

\* the names of CHORD_TEMPLATES and the silence label
VOCABULARY ==
    {ChordName(root, QUALITIES[i]) : root \in 0..11, i \in 1..Len(QUALITIES)} \cup {NC}

\* the labels format_chords hands to the fast path: roots, minor triads, "N"
FAST_LABELS ==
    {PITCH_CLASS_NAMES[i] : i \in 1..12}
        \cup {PITCH_CLASS_NAMES[i] \o <<"m">> : i \in 1..12} \cup {<<"N">>}

SimplifyArgs ==
    {[fn |-> "_simplify_chord", module |-> "analysis", x |-> x] : x \in VOCABULARY}
        \cup {[fn |-> "_simplify_chord", module |-> "chord_madmom", x |-> x] :
                 x \in VOCABULARY \cup FAST_LABELS}

\* _simplify_chord of analysis.py applied to a label and to its own result
ApplySimplify ==
    /\ arg.st = "ok" /\ returned = None
    /\ arg.val.fn = "_simplify_chord" /\ arg.val.module = "analysis"
    /\ returned' = Ok([once  |-> simplify_chord(arg.val.x),
                       twice |-> simplify_chord(simplify_chord(arg.val.x))])
    /\ UNCHANGED <<arg, smoothVars, analyzeVars, cacheVars, streamVars, serverVars, sessionVars>>

\* _simplify_chord of chord_madmom.py applied to a label and to its own result
ApplyMadmomSimplify ==
    /\ arg.st = "ok" /\ returned = None
    /\ arg.val.fn = "_simplify_chord" /\ arg.val.module = "chord_madmom"
    /\ returned' = Ok([once  |-> madmom_simplify_chord(arg.val.x),
                       twice |-> madmom_simplify_chord(madmom_simplify_chord(arg.val.x))])
    /\ UNCHANGED <<arg, smoothVars, analyzeVars, cacheVars, streamVars, serverVars, sessionVars>>

\* ------------------------------------------------------------------------
\* _merge_chords_to_bars (analysis.py).  Its tolerance of 1e-6 s is below one
\* sample, so this function's times are counted in microseconds.
\* ------------------------------------------------------------------------
\* while t < duration - 1e-6
EPSILON == 1
\* np.clip(bar_len, 0.5, 12.0)
MIN_BAR_LEN == 500000
MAX_BAR_LEN == 12000000
\* ... else 2.0
DEFAULT_BAR_LEN == 2000000
\* beats_per_bar * 60.0, in microseconds per beat-per-minute
MINUTE == 60000000

Clip(x, lo, hi) == IF x < lo THEN lo ELSE IF x > hi THEN hi ELSE x

\* bar_len for a tempo in bpm (0 stands for a missing or zero tempo)
BarLen(tempo, beats_per_bar) ==
    Clip(IF tempo > 0 THEN (beats_per_bar * MINUTE) \div tempo ELSE DEFAULT_BAR_LEN,
         MIN_BAR_LEN, MAX_BAR_LEN)

RECURSIVE InsertByStart(_, _)
\* c placed behind every segment of the sorted list that starts no later
InsertByStart(sorted, c) ==
    IF sorted = <<>> THEN <<c>>
    ELSE IF Head(sorted).start <= c.start
         THEN <<Head(sorted)>> \o InsertByStart(Tail(sorted), c)
         ELSE <<c>> \o sorted

RECURSIVE SortedByStart(_, _)
\* sorted(chords, key=lambda c: c.get("start", 0.0)): stable, i is 1-based
SortedByStart(cs, i) ==
    IF i = 0 THEN <<>> ELSE InsertByStart(SortedByStart(cs, i - 1), cs[i])

\* max(0.0, min(window_end, ch["end"]) - max(t, ch["start"]))
Overlap(ch, t, window_end) == Max2(0, Min2(window_end, ch.end) - Max2(t, ch.start))

RECURSIVE BestLoop_Last(_, _, _, _, _, _)
\* a scan that lets a later segment win a tie
BestLoop_Last(cs, i, t, window_end, best, best_overlap) ==
    IF i > Len(cs) THEN best
    ELSE IF Overlap(cs[i], t, window_end) > 0 /\ Overlap(cs[i], t, window_end) >= best_overlap
         THEN BestLoop_Last(cs, i + 1, t, window_end, Ok(cs[i]), Overlap(cs[i], t, window_end))
         ELSE BestLoop_Last(cs, i + 1, t, window_end, best, best_overlap)

RECURSIVE BestLoop(_, _, _, _, _, _)
\* for ch in chords_sorted: if overlap > best_overlap: ...
BestLoop(cs, i, t, window_end, best, best_overlap) ==
    IF i > Len(cs) THEN best
    ELSE IF Overlap(cs[i], t, window_end) > best_overlap
         THEN BestLoop(cs, i + 1, t, window_end, Ok(cs[i]), Overlap(cs[i], t, window_end))
         ELSE BestLoop(cs, i + 1, t, window_end, best, best_overlap)

RECURSIVE BarLoop(_, _, _, _, _)
\* the while loop of _merge_chords_to_bars
BarLoop(chords_sorted, bar_len, duration, t, merged) ==
    IF ~(t < duration - EPSILON) THEN merged
    ELSE LET window_end == Min2(duration, t + bar_len)
             best == BestLoop(chords_sorted, 1, t, window_end, None, 0)
             bar  == IF best = None THEN Seg(t, window_end, NC, 0)
                     ELSE Seg(t, window_end, best.val.chord, best.val.confidence)
         IN BarLoop(chords_sorted, bar_len, duration, t + bar_len, Append(merged, bar))

merge_chords_to_bars(cs, tempo, duration, beats_per_bar) ==
    IF duration <= 0 THEN cs
    ELSE BarLoop(SortedByStart(cs, Len(cs)), BarLen(tempo, beats_per_bar), duration, 0, <<>>)

MaxBarSegs == 2

\* segments in microseconds: overlapping ones, ties and a gap after 3 s
BarPool ==
    {Seg(0, 1000000, <<"C">>, 40), Seg(1000000, 2000000, <<"A", "m", "i", "n">>, 60),
     Seg(0, 2000000, <<"G">>, 95), Seg(1000000, 3000000, <<"C">>, 95),
     Seg(2000000, 3000000, <<"G">>, 40)}
BarTempos == {0, 10, 120, 1000}
BarDurations == {0, 1, 2, 1500000, 2000000, 2000001, 2000002, 4000000, 4500000}

BarArgs ==
    {[fn |-> "_merge_chords_to_bars", chords |-> cs, tempo |-> tempo,
      duration |-> duration, beats_per_bar |-> bpb] :
        cs \in UNION {[1..n -> BarPool] : n \in 0..MaxBarSegs},
        tempo \in BarTempos, duration \in BarDurations, bpb \in {3, 4}}

ApplyMergeBars ==
    /\ arg.st = "ok" /\ returned = None
    /\ arg.val.fn = "_merge_chords_to_bars"
    /\ returned' = Ok(merge_chords_to_bars(arg.val.chords, arg.val.tempo,
                                           arg.val.duration, arg.val.beats_per_bar))
    /\ UNCHANGED <<arg, smoothVars, analyzeVars, cacheVars, streamVars, serverVars, sessionVars>>

NextPure == ApplyTempo \/ ApplySimplify \/ ApplyMadmomSimplify \/ ApplyMergeBars

\* ------------------------------------------------------------------------
\* The specifications.  Each starts one part of the program; the state of
\* the other parts is at rest.
\* ------------------------------------------------------------------------
StreamAtRest == audio_data = None /\ detected = None

PureAtRest == arg = None /\ returned = None

SessionAtRest ==
    /\ active_connections = [id \in ClientIds |-> 0]
    /\ sessions = [c \in Conns |-> NewSession]
    /\ handled = None
    /\ msgs = 0

\* no separator has been asked for or built
SeparatorAtRest ==
    /\ wrappers = [g \in SEPARATORS |-> 0]
    /\ constructed = [g \in SEPARATORS |-> 0]
    /\ callers = [p \in Procs |-> IdleCaller]

ServerAtRest ==
    /\ analysis_semaphore = MAX_CONCURRENT_ANALYSIS
    /\ handlers = [h \in Handlers |-> IdleHandler]
    /\ SeparatorAtRest

SmoothAtRest ==
    chords = None /\ min_duration = None /\ smooth_out = None /\ merge_out = None

AnalyzeAtRest == y = None /\ beats = None /\ segments = None /\ result = None

EmptyCache == [ns \in NAMESPACES |-> [fp \in Fingerprints |-> AbsentEntry]]

CacheAtRest ==
    /\ MADMOM_AVAILABLE = FALSE
    /\ cache = EmptyCache
    /\ procs = [p \in Procs |-> Idle]
    /\ last = None
    /\ done = {}
    /\ faults = 0
    /\ requests = 0

\* two consecutive "G" segments of 0.3 s and 0.4 s, smoothed with threshold 0.5 s
TWO_G == Tile(0, <<Sec10(3), Sec10(4)>>, << <<"G">>, <<"G">> >>, <<40, 95>>)

InitSmooth ==
    /\ \/ chords \in GapFreeLists(MaxSegs) /\ min_duration \in SmMins
       \/ chords = TWO_G /\ min_duration = Sec10(5)
    /\ smooth_out = None
    /\ merge_out = None
    /\ AnalyzeAtRest /\ CacheAtRest /\ StreamAtRest /\ PureAtRest /\ ServerAtRest /\ SessionAtRest

SpecSmooth == InitSmooth /\ [][NextSmooth]_vars

InitAnalyze ==
    /\ y \in {Ok(w) : w \in Waveforms} \cup {Raised("undecodable")}
    /\ beats = None /\ segments = None /\ result = None
    /\ SmoothAtRest /\ CacheAtRest /\ StreamAtRest /\ PureAtRest /\ ServerAtRest /\ SessionAtRest

SpecAnalyze == InitAnalyze /\ [][NextAnalyze]_vars

InitCache ==
    /\ MADMOM_AVAILABLE \in BOOLEAN
    /\ cache = EmptyCache
    /\ procs = [p \in Procs |-> Idle]
    /\ last = None
    /\ done = {}
    /\ faults = 0
    /\ requests = MaxRequests
    /\ SmoothAtRest /\ AnalyzeAtRest /\ StreamAtRest /\ PureAtRest /\ ServerAtRest /\ SessionAtRest

SpecCache == InitCache /\ [][NextCache]_vars

InitStream ==
    /\ audio_data \in {Ok(w) : w \in Waveforms \ {<<>>}}
    /\ detected = None
    /\ SmoothAtRest /\ AnalyzeAtRest /\ CacheAtRest /\ PureAtRest /\ ServerAtRest /\ SessionAtRest

SpecStream == InitStream /\ [][NextStream]_vars

InitPure ==
    /\ arg \in {Ok(a) : a \in TempoArgs \cup SimplifyArgs \cup BarArgs}
    /\ returned = None
    /\ SmoothAtRest /\ AnalyzeAtRest /\ CacheAtRest /\ StreamAtRest /\ ServerAtRest /\ SessionAtRest

SpecPure == InitPure /\ [][NextPure]_vars

InitServer ==
    /\ MADMOM_AVAILABLE \in BOOLEAN
    /\ cache = EmptyCache
    /\ procs = [p \in Procs |-> Idle]
    /\ last = None
    /\ done = {}
    /\ faults = 0
    /\ requests = 0
    /\ ServerAtRest
    /\ SmoothAtRest /\ AnalyzeAtRest /\ StreamAtRest /\ PureAtRest /\ SessionAtRest

\* the state after lifespan has run: its _get_separator() call has built the
\* first 4-stem instance, or has raised and left _DEMUCS_WRAPPER at None
InitSeparator ==
    /\ \E preloaded \in BOOLEAN :
         /\ wrappers = [g \in SEPARATORS |->
                          IF preloaded /\ g = "_DEMUCS_WRAPPER" THEN 1 ELSE 0]
         /\ constructed = wrappers
    /\ callers = [p \in Procs |-> IdleCaller]
    /\ analysis_semaphore = MAX_CONCURRENT_ANALYSIS
    /\ handlers = [h \in Handlers |-> IdleHandler]
    /\ SmoothAtRest /\ AnalyzeAtRest /\ CacheAtRest /\ StreamAtRest /\ PureAtRest /\ SessionAtRest

SpecSeparator == InitSeparator /\ [][NextSeparator]_vars

SpecServer == InitServer /\ [][NextServer]_vars

\* the thread scheduler lets every handler that can take a step take it: a
\* handler that can acquire does, and an admitted handler runs to its end
FairServer ==
    \A h \in Handlers :
       /\ WF_vars(Acquire(h))
       /\ WF_vars(StartWork(h) \/ Abort(h))
       /\ WF_vars(Leave(h))

\* the requests of the fair specification go to one analyze endpoint and one
\* separate endpoint: the four handlers take and leave the semaphore alike
FAIR_ENDPOINTS == {"analyze", "separate_audio_6stems"}

NextServerFair ==
    \E h \in Handlers :
       \/ \E endpoint \in FAIR_ENDPOINTS : Receive(h, endpoint)
       \/ Acquire(h)
       \/ StartWork(h)
       \/ Abort(h)
       \/ Leave(h)

SpecServerFair == InitServer /\ [][NextServerFair]_vars /\ FairServer

InitSession ==
    /\ SessionAtRest
    /\ SmoothAtRest /\ AnalyzeAtRest /\ CacheAtRest /\ StreamAtRest /\ PureAtRest
    /\ ServerAtRest

SpecSession == InitSession /\ [][NextSession]_vars

\* the precise path, the fast path and the streaming detector together
Init == InitAnalyze \/ InitCache \/ InitStream

Next == NextAnalyze \/ NextCache \/ NextStream

Spec == Init /\ [][Next]_vars

\* ------------------------------------------------------------------------
\* Properties of segment lists
\* ------------------------------------------------------------------------
GapFree(cs) == \A i \in 1..(Len(cs) - 1) : cs[i].end = cs[i + 1].start
TimeOrdered(cs) == \A i \in 1..Len(cs) : cs[i].start < cs[i].end
NoAdjacentEqual(cs) == \A i \in 1..(Len(cs) - 1) : cs[i].chord # cs[i + 1].chord
SameSpan(cs, ds) ==
    /\ cs # <<>>
    /\ cs[1].start = ds[1].start
    /\ cs[Len(cs)].end = ds[Len(ds)].end

\* C2: the list returned by _smooth_chords has no two adjacent segments
\* with the same chord label
C2_NoAdjacentDuplicates ==
    smooth_out.st = "ok" => NoAdjacentEqual(smooth_out.val)

\* C3: given a time-ordered gap-free list, what _smooth_chords returns and
\* what _merge_consecutive returns is time-ordered and gap-free, starts at the
\* input's first start and ends at the input's last end
Tiles(out, inp) == GapFree(out) /\ TimeOrdered(out) /\ SameSpan(out, inp)

C3_SmootherKeepsTiling ==
    /\ smooth_out.st = "ok" => Tiles(smooth_out.val, chords)
    /\ merge_out.st = "ok" => Tiles(merge_out.val, chords)

\* both smoothers ran, pass 1 merged a run and pass 2 absorbed a short segment
C3_Witness ==
    /\ smooth_out.st = "ok" /\ merge_out.st = "ok"
    /\ Len(merge_out.val) < Len(chords)
    /\ Len(smooth_out.val) < Len(merge_out.val)

\* C20 as stated: every segment of a list _smooth_chords returns lasts at
\* least min_duration
LongEnough(out, md) == \A i \in 1..Len(out) : out[i].end - out[i].start >= md

C20_MinDuration ==
    smooth_out.st = "ok" => LongEnough(smooth_out.val, min_duration)

\* what pass 1 of _smooth_chords leaves of the input
Pass1(cs) == IF cs = <<>> THEN <<>> ELSE MergeLoop(cs, 2, <<>>, cs[1])

\* C20 amended: when pass 1 leaves at least two segments, every segment of the
\* returned list lasts at least min_duration; when it leaves one segment, that
\* segment is returned as it is, however short
C20_MinDurationAfterPass2 ==
    smooth_out.st = "ok" =>
       /\ Len(Pass1(chords)) >= 2 => LongEnough(smooth_out.val, min_duration)
       /\ Len(Pass1(chords)) < 2 => smooth_out.val = Pass1(chords)

\* pass 2 absorbed a short segment and returned segments that are long enough
C20_Witness ==
    /\ smooth_out.st = "ok"
    /\ Len(Pass1(chords)) >= 2
    /\ \E i \in 1..Len(Pass1(chords)) :
          Pass1(chords)[i].end - Pass1(chords)[i].start < min_duration
    /\ smooth_out.val # <<>>
    /\ Len(smooth_out.val) < Len(Pass1(chords))

\* the maximal runs of equal labels, stated without the loop: a run starts
\* where the label differs from the one before
RunStarts(cs) == {i \in 1..Len(cs) : i = 1 \/ cs[i - 1].chord # cs[i].chord}

RunEnd(cs, a) ==
    CHOOSE b \in a..Len(cs) :
       /\ \A j \in a..b : cs[j].chord = cs[a].chord
       /\ b = Len(cs) \/ cs[b + 1].chord # cs[a].chord

MaxConfidence(cs, a, b) ==
    CHOOSE k \in {cs[j].confidence : j \in a..b} : \A j \in a..b : cs[j].confidence <= k

RunSegment(cs, a) ==
    Seg(cs[a].start, cs[RunEnd(cs, a)].end, cs[a].chord, MaxConfidence(cs, a, RunEnd(cs, a)))

NthRunStart(cs, k) ==
    CHOOSE a \in RunStarts(cs) : Cardinality({x \in RunStarts(cs) : x <= a}) = k

Runs(cs) == [k \in 1..Cardinality(RunStarts(cs)) |-> RunSegment(cs, NthRunStart(cs, k))]

\* C21: pass 1 replaces every maximal run of equal labels by one segment from
\* the run's first start to its last end with the largest confidence of the
\* run: _merge_consecutive returns exactly these segments, _smooth_chords
\* returns them whenever pass 2 has nothing to absorb, and two "G" segments of
\* 0.3 s and 0.4 s come out as one "G" segment of 0.7 s under threshold 0.5 s
C21_Pass1MergesRuns ==
    /\ merge_out.st = "ok" => merge_out.val = Runs(chords)
    /\ (smooth_out.st = "ok"
          /\ (Len(Runs(chords)) < 2 \/ LongEnough(Runs(chords), min_duration)))
         => smooth_out.val = Runs(chords)
    /\ (smooth_out.st = "ok" /\ chords = TWO_G)
         => smooth_out.val = <<Seg(0, Sec10(7), <<"G">>, 95)>>

\* the two "G" segments went through both smoothers and came out as one
C21_Witness ==
    /\ chords = TWO_G /\ min_duration = Sec10(5)
    /\ smooth_out = Ok(<<Seg(0, Sec10(7), <<"G">>, 95)>>)
    /\ merge_out = Ok(<<Seg(0, Sec10(7), <<"G">>, 95)>>)

\* C30: on a non-empty time-ordered list _smooth_chords raises nothing and
\* returns a non-empty list
C30_SmootherNeverRaises ==
    /\ smooth_out.st \in {"none", "ok"}
    /\ (smooth_out.st = "ok" /\ chords # <<>>) => smooth_out.val # <<>>

\* ------------------------------------------------------------------------
\* Properties of analyze_file
\* ------------------------------------------------------------------------
\* C1: the segments _segment_chords returns are gap-free, the first starts at 0
\* and the last ends at the time of the last chroma frame
C1_FullCoverage ==
    (segments.st = "ok" /\ segments.val # <<>>) =>
        /\ GapFree(segments.val)
        /\ segments.val[1].start = 0
        /\ segments.val[Len(segments.val)].end = frames_to_time(NumFrames(y.val) - 1)

ResultFields == {"tempo", "meter", "key", "scale", "chords", "simpleChords"}

\* C5: every result analyze_file returns, on every return path, has exactly the
\* fields tempo, meter (3 or 4), key, scale, chords and simpleChords
C5_SameFieldSet ==
    result.st = "ok" =>
        /\ DOMAIN result.val = ResultFields
        /\ result.val.meter \in {3, 4}

\* C6 as stated: a non-empty all-zero waveform yields tempo 0, key C, scale
\* major and an empty chord list
C6_SilenceEmptyChords ==
    (y.st = "ok" /\ y.val # <<>> /\ AllZero(y.val) /\ result.st = "ok") =>
        /\ result.val.tempo = 0
        /\ result.val.key = <<"C">>
        /\ result.val.scale = "major"
        /\ result.val.chords = <<>>

\* C6 amended: a non-empty all-zero waveform yields tempo 0, key C, scale major
\* and a chord list that holds no labelled chord: it is empty or it is one "N.C."
\* segment of confidence 0
C6_SilenceNoChord ==
    (y.st = "ok" /\ y.val # <<>> /\ AllZero(y.val) /\ result.st = "ok") =>
        /\ result.val.tempo = 0
        /\ result.val.key = <<"C">>
        /\ result.val.scale = "major"
        /\ Len(result.val.chords) <= 1
        /\ \A i \in 1..Len(result.val.chords) :
              result.val.chords[i].chord = NC /\ result.val.chords[i].confidence = 0

\* a silent waveform long enough for several fallback segments was analyzed
C6_Witness ==
    /\ y.st = "ok" /\ y.val # <<>> /\ AllZero(y.val) /\ result.st = "ok"
    /\ segments.st = "ok" /\ Len(segments.val) >= 2
    /\ Len(result.val.chords) = 1

\* ------------------------------------------------------------------------
\* Properties of the cached detector calls, stated on the call that
\* finished last
\* ------------------------------------------------------------------------
\* equality of two values of a namespace; tempos compare as numbers
SameValue(ns, a, b) == IF ns = "tempo" THEN a.num = b.num ELSE a = b

\* the call found a cache file and returned without running the detector
Hit(c) == c.call.saw.st = "file" /\ ~c.call.invoked /\ c.ret.st = "ok"

\* the call found a cache file it could not use: an incomplete one, or one
\* whose reading failed
FoundCorrupt(c) == c.call.saw.st = "file" /\ (~c.call.saw.complete \/ c.call.read_fault)

\* C7 as stated, for the runs in which no detector and no file operation
\* fails: a call that finds an entry returns without invoking the detector, a
\* call that finds none invokes it and stores and returns its result, and a
\* call made after another call on the same file has returned never invokes
\* the detector
C7_ReadThrough ==
    (last.st = "ok" /\ faults = 0) =>
        LET c == last.val
        IN /\ c.call.saw.st = "file" => Hit(c)
           /\ c.call.saw.st = "absent" =>
                 c.call.invoked /\ c.call.wrote = "ok" /\ c.ret = c.call.value
           /\ c.call.prior => ~c.call.invoked

\* C7 amended: a call that finds and reads a completely written entry returns
\* the stored value without invoking the detector; a call that finds no entry
\* invokes the detector, and when the detector gives a value and the write
\* succeeds the call returns that value; every completely written entry reads
\* back as the value its writer returned
C7_ReadThroughWhenIntact ==
    /\ last.st = "ok" =>
         LET c == last.val
         IN /\ (c.call.saw.st = "file" /\ c.call.saw.complete /\ ~c.call.read_fault) =>
                  Hit(c) /\ SameValue(c.ns, c.ret.val, c.call.saw.wret.val)
            /\ c.call.saw.st = "absent" => c.call.invoked
            /\ (c.call.invoked /\ c.call.wrote = "ok") => c.ret = c.call.value
    /\ \A ns \in NAMESPACES, fp \in Fingerprints :
         LET e == cache[ns][fp]
             out == ReadOutcome(ns, e, FALSE)
         IN e.complete => out.kind = "return" /\ SameValue(ns, out.val, e.wret.val)

\* the second call on a file found the entry the first one wrote and returned
\* its value without invoking the detector, in the tempo namespace
C7_Witness ==
    /\ last.st = "ok"
    /\ last.val.ns = "tempo"
    /\ last.val.call.prior /\ last.val.call.saw.complete /\ Hit(last.val)
    /\ last.val.ret.val.type = "float" /\ last.val.call.saw.wret.val.type = "int"

\* C8: the value a call returns on a hit equals the value returned by the
\* call that wrote the entry
C8_RoundTrip ==
    last.st = "ok" =>
        LET c == last.val
        IN (Hit(c) /\ c.call.saw.wret.st = "ok") =>
              SameValue(c.ns, c.ret.val, c.call.saw.wret.val)

\* C9: a call that finds an entry it cannot read, or an empty or partially
\* written one, invokes the detector, and raises only if the detector does
C9_CorruptIsMiss ==
    last.st = "ok" =>
        LET c == last.val
        IN FoundCorrupt(c) =>
              /\ c.call.invoked
              /\ c.ret.st # "ok" => ~c.call.detected

\* C10: a call whose detector gave a value and whose write failed returns
\* that value
C10_FailedWriteIsNoOp ==
    last.st = "ok" =>
        LET c == last.val
        IN c.call.wrote = "failed" => c.ret = c.call.value

\* analyze_file replaced the beat tracker's frames by its artificial beats
FallbackUsed ==
    beats.st = "ok" /\ beats.val = Arange(0, NumFrames(y.val), SR \div (2 * HOP_LENGTH))

StrictlyIncreasing(bts) == \A i \in 1..(Len(bts) - 1) : bts[i] < bts[i + 1]

\* C23: when the beat tracker returns fewer than 2 beats, the boundary list
\* handed to _segment_chords holds at least 2 strictly increasing frame
\* indices and _segment_chords returns at least one segment
C23_FallbackBoundaries ==
    FallbackUsed =>
       /\ Len(beats.val) >= 2
       /\ StrictlyIncreasing(beats.val)
       /\ segments.st = "ok" /\ segments.val # <<>>

\* the index of the template a label names (the names are distinct)
TemplateIndex(name) ==
    CHOOSE k \in 1..Len(CHORD_TEMPLATES) : CHORD_TEMPLATES[k].name = name

\* the template boosted for segment i: the one chosen for the segment emitted
\* just before, none for the first segment and after "N.C."
Boosted(segs, i) ==
    IF i = 1 \/ segs[i - 1].chord = NC THEN 0 ELSE TemplateIndex(segs[i - 1].chord)

\* the score of template j for the summed frames vsum, times 1.2 when j is the
\* boosted template b, as the fraction of the squares (1.2^2 = 36/25)
Times12(vsum, j, b) ==
    LET d == Dot(vsum, CHORD_TEMPLATES[j].vec)
    IN <<(IF j = b THEN 36 ELSE 25) * d * d, CHORD_TEMPLATES[j].normsq>>

\* template k is the first one with the largest score once b is boosted
FirstLargest(vsum, k, b) ==
    \A j \in 1..Len(CHORD_TEMPLATES) :
       LET sj == Times12(vsum, j, b)
           sk == Times12(vsum, k, b)
       IN /\ ~FracLess(sk[1], sk[2], sj[1], sj[2])
          /\ j < k => FracLess(sj[1], sj[2], sk[1], sk[2])

\* the summed filtered frames of the segment seg
SegmentSum(filtered, seg) ==
    SumFrames(filtered, seg.start \div HOP_LENGTH, seg.end \div HOP_LENGTH)

\* C22: every labelled segment of _segment_chords carries the first template
\* with the largest score after the score of the template of the segment
\* emitted just before it (none for the first segment and after "N.C.") is
\* multiplied by 1.2, and its confidence is the unboosted score of that
\* template, at most 1
C22_PersistenceBias ==
    segments.st = "ok" =>
       \E filtered \in {median_filter(ChromaOf(y.val))} :
          \A i \in 1..Len(segments.val) :
             LET seg == segments.val[i]
             IN seg.chord # NC =>
                  \E vsum \in {SegmentSum(filtered, seg)} :
                     /\ FirstLargest(vsum, TemplateIndex(seg.chord), Boosted(segments.val, i))
                     /\ seg.confidence =
                          Min2(100, Cosine(CHORD_TEMPLATES, vsum, TemplateIndex(seg.chord)))

\* the bias decided a segment: it kept the label of the segment before it
\* although another template has a larger unboosted score
C22_Witness ==
    /\ segments.st = "ok"
    /\ \E i \in 2..Len(segments.val) :
          /\ segments.val[i].chord # NC
          /\ segments.val[i].chord = segments.val[i - 1].chord
          /\ \E vsum \in {SegmentSum(median_filter(ChromaOf(y.val)), segments.val[i])} :
                ~FirstLargest(vsum, TemplateIndex(segments.val[i].chord), 0)

\* C26: once an entry has been completely written for a fingerprint in a
\* namespace, no step of any call changes it, so every later read finds what
\* was written first
C26_EntriesImmutable ==
    [][\A ns \in NAMESPACES : \A fp \in Fingerprints :
          (cache[ns][fp].st = "file" /\ cache[ns][fp].complete)
             => cache'[ns][fp] = cache[ns][fp]]_vars

\* ------------------------------------------------------------------------
\* Confidence on the three paths
\* ------------------------------------------------------------------------
\* confidences are in hundredths
InUnitInterval(cs) ==
    \A i \in 1..Len(cs) : 0 <= cs[i].confidence /\ cs[i].confidence <= 100

\* C4: every segment of the batch classifier, of the smoother, of the fast
\* path and of the streaming detector has a confidence between 0 and 1
C4_ConfidenceInUnitInterval ==
    /\ segments.st = "ok" => InUnitInterval(segments.val)
    /\ result.st = "ok" =>
         /\ InUnitInterval(result.val.chords)
         /\ "simpleChords" \in DOMAIN result.val => InUnitInterval(result.val.simpleChords)
    /\ \A p \in Procs :
         procs[p].result.st = "ok" =>
            /\ InUnitInterval(procs[p].result.val.chords)
            /\ InUnitInterval(procs[p].result.val.simpleChords)
    /\ detected.st = "ok" => InUnitInterval(<<detected.val>>)

\* the classifier kept a chord over two segments, the second with a score
\* that the 1.2 bias lifts above 1, and the smoother merged the two
C4_Witness ==
    /\ segments.st = "ok" /\ result.st = "ok"
    /\ \E i \in 2..Len(segments.val) :
         /\ segments.val[i].chord = segments.val[i - 1].chord
         /\ segments.val[i].chord # NC
         /\ 12 * segments.val[i].confidence > 1000
    /\ Len(result.val.chords) < Len(segments.val)

\* ------------------------------------------------------------------------
\* Tempo normalization
\* ------------------------------------------------------------------------
RECURSIVE Pow2(_)
Pow2(k) == IF k = 0 THEN 1 ELSE 2 * Pow2(k - 1)

\* t is the rounding of raw doubled or halved some number of times
ByOctaves(raw, t) ==
    \E k \in 0..10 : \/ t = round(raw[1] * Pow2(k), raw[2])
                      \/ t = round(raw[1], raw[2] * Pow2(k))

\* C11: every tempo that detect_tempo_madmom stores and returns after the
\* normalization lies between 70 and 190, is the raw tempo doubled or halved
\* some number of times and rounded, the stored text is that number, and a
\* raw 210 becomes 105
C11_TempoInBand ==
    (arg.st = "ok" /\ returned.st = "ok") =>
       ((arg.val.fn = "detect_tempo_madmom" /\ returned.val.kind = "save") =>
          LET t   == returned.val.val.num
              raw == arg.val.tempos[1]
          IN /\ 70 <= t /\ t <= 190
             /\ returned.val.val.type = "int"
             /\ returned.val.text = str_int(t)
             /\ ByOctaves(raw, t)
             /\ raw = <<210, 1>> => t = 105)

\* a raw tempo of 210 was normalized and stored
C11_Witness ==
    /\ arg.st = "ok" /\ returned.st = "ok"
    /\ arg.val.fn = "detect_tempo_madmom"
    /\ arg.val.tempos = << <<210, 1>> >>
    /\ returned.val.kind = "save" /\ returned.val.val.num = 105

\* ------------------------------------------------------------------------
\* The heavy request handlers
\* ------------------------------------------------------------------------
\* C12: in analyze and analyze_youtube the fast engine is chosen exactly when
\* use_madmom is set, separate_vocals is not and madmom is available, the
\* precise engine in every other case, and no response is the failure of an
\* unavailable fast engine
C12_EngineSelection ==
    \A h \in Handlers :
       /\ (handlers[h].pc = "working" /\ handlers[h].endpoint \in ANALYZE_ENDPOINTS) =>
             LET fast == /\ handlers[h].use_madmom
                         /\ ~handlers[h].separate_vocals
                         /\ MADMOM_AVAILABLE
             IN /\ fast => handlers[h].engine = "analyze_file_madmom"
                /\ ~fast => handlers[h].engine = "analyze_file"
       /\ handlers[h].error # "ImportError"

\* the fast engine was asked for while madmom is missing, on both endpoints,
\* and the precise engine runs
C12_Witness ==
    /\ ~MADMOM_AVAILABLE
    /\ \E h, g \in Handlers :
         /\ handlers[h].endpoint = "analyze" /\ handlers[g].endpoint = "analyze_youtube"
         /\ \A k \in {h, g} :
               /\ handlers[k].pc = "working"
               /\ handlers[k].use_madmom /\ ~handlers[k].separate_vocals
               /\ handlers[k].engine = "analyze_file"

\* the handlers inside the with block of the semaphore
Inside == {h \in Handlers : handlers[h].pc \in {"inside", "working"}}

\* C13: at most MAX_CONCURRENT_ANALYSIS requests are inside the heavy-work
\* section, whatever their endpoints; the others wait and have not started
\* their analysis
C13_AdmissionControl ==
    /\ Cardinality(Inside) <= MAX_CONCURRENT_ANALYSIS
    /\ analysis_semaphore = MAX_CONCURRENT_ANALYSIS - Cardinality(Inside)
    /\ \A h \in Handlers : handlers[h].pc = "waiting" => handlers[h].engine = ""

\* two requests are inside and a third one waits
C13_Witness ==
    /\ Cardinality(Inside) = MAX_CONCURRENT_ANALYSIS
    /\ analysis_semaphore = 0
    /\ \E h \in Handlers : handlers[h].pc = "waiting"
    /\ \E h, g \in Inside : handlers[h].endpoint \in ANALYZE_ENDPOINTS
                             /\ handlers[g].endpoint \in SEPARATE_ENDPOINTS

\* C28: every handler gives its permit back however it leaves the block, so
\* the free permits are always 2 minus the handlers inside, 2 when none is
\* inside, and with fair scheduling every waiting handler is admitted
C28_PermitsReturned ==
    /\ [](analysis_semaphore = MAX_CONCURRENT_ANALYSIS - Cardinality(Inside))
    /\ \A h \in Handlers : (handlers[h].pc = "waiting") ~> (handlers[h].pc = "inside")

\* a third request waited while two were inside, both of them have left, one
\* through an HTTPException and one through a failed analysis, the third was
\* admitted and has answered, and both permits are free again
C28_Witness ==
    /\ analysis_semaphore = MAX_CONCURRENT_ANALYSIS
    /\ \A h \in Handlers : handlers[h].pc = "done"
    /\ \E h \in Handlers : handlers[h].status = 500 /\ handlers[h].error = "HTTPException"
    /\ \E h \in Handlers : handlers[h].status = 500 /\ handlers[h].error = "Exception"
    /\ \E h \in Handlers : handlers[h].status = 200

\* C27: each separator model is constructed at most once, and all callers of
\* a getter receive the same instance
C27_SeparatorSingleton ==
    \A g \in SEPARATORS :
       /\ constructed[g] <= 1
       /\ \A p, q \in Procs :
             (callers[p].got[g] # 0 /\ callers[q].got[g] # 0)
                => callers[p].got[g] = callers[q].got[g]

\* ------------------------------------------------------------------------
\* Streaming sessions
\* ------------------------------------------------------------------------
\* C14: the rolling buffer never holds more than 22050 samples, and a chunk
\* that takes it over that size leaves exactly the 22050 samples received
\* last
C14_BufferCapped ==
    /\ \A c \in Conns : BufLen(sessions[c].audio_buffer) <= MAX_SAMPLES
    /\ handled.st = "ok" =>
         LET m == handled.val
         IN (m.msg.type = "audio_chunk" /\ BufLen(m.before) + m.appended > MAX_SAMPLES) =>
               m.after = <<m.before[2] + m.appended - MAX_SAMPLES, m.before[2] + m.appended>>

\* a chunk of one sample came to a full buffer and pushed the oldest sample out
C14_Witness ==
    /\ handled.st = "ok"
    /\ handled.val.msg.type = "audio_chunk"
    /\ BufLen(handled.val.before) = MAX_SAMPLES /\ handled.val.appended = 1
    /\ handled.val.after[1] = handled.val.before[1] + 1

\* the only event the handler emitted is one chord event with the message's
\* timestamp
OneChord(m) ==
    /\ Len(m.emitted) = 1
    /\ m.emitted[1].type = "chord" /\ m.emitted[1].timestamp = m.timestamp

\* C15 as stated: after every audio_chunk message one chord event with its
\* timestamp is sent when the buffer holds at least 11025 samples and none
\* when it holds fewer
C15_ChordPerChunk ==
    handled.st = "ok" =>
       LET m == handled.val
       IN m.msg.type = "audio_chunk" =>
             /\ BufLen(m.after) >= MIN_SAMPLES => OneChord(m)
             /\ BufLen(m.after) < MIN_SAMPLES => m.emitted = <<>>

\* the payload of the message is not empty and decodes without raising
Decodes(m) == m.msg.data.data # "empty" /\ m.error = ""

\* C15 amended: after an audio_chunk message whose payload is not empty and
\* decodes, one chord event with its timestamp is emitted when the buffer
\* holds at least 11025 samples and none when it holds fewer; a message with
\* an empty payload or one whose decoding raises emits no event
C15_ChordPerDecodedChunk ==
    handled.st = "ok" =>
       LET m == handled.val
       IN m.msg.type = "audio_chunk" =>
             /\ (Decodes(m) /\ BufLen(m.after) >= MIN_SAMPLES) =>
                   OneChord(m) /\ m.emitted[1].of = m.after
             /\ (Decodes(m) /\ BufLen(m.after) < MIN_SAMPLES) => m.emitted = <<>>
             /\ ~Decodes(m) => m.emitted = <<>>

\* a chunk of one sample came while the buffer was above 0.5 s and a chord
\* event went out on the connection's socket
C15_Witness ==
    /\ handled.st = "ok"
    /\ handled.val.msg.type = "audio_chunk"
    /\ BufLen(handled.val.before) >= MIN_SAMPLES /\ handled.val.appended = 1
    /\ OneChord(handled.val)
    /\ handled.val.delivered_on = handled.val.conn

\* C16: a ping emits one pong and leaves the buffer as it was, a clear
\* empties the buffer and emits one cleared, neither emits a chord event, and
\* a chord event is emitted only for a buffer of at least 11025 samples that
\* were all received after the last clear
C16_ControlMessages ==
    handled.st = "ok" =>
       LET m == handled.val
       IN /\ m.msg.type = "ping" =>
               m.emitted = <<[type |-> "pong"]>> /\ m.after = m.before
          /\ m.msg.type = "clear" =>
               m.emitted = <<[type |-> "cleared"]>> /\ BufLen(m.after) = 0
          /\ \A i \in 1..Len(m.emitted) :
               m.emitted[i].type = "chord" =>
                  /\ m.msg.type = "audio_chunk"
                  /\ BufLen(m.emitted[i].of) >= MIN_SAMPLES
                  /\ m.emitted[i].of[1] >= m.cleared_at

\* a clear emptied a buffer that was above 0.5 s, and the chunk after it
\* emitted no chord event
C16_Witness ==
    /\ handled.st = "ok"
    /\ handled.val.msg.type = "audio_chunk"
    /\ handled.val.cleared_at >= MIN_SAMPLES
    /\ handled.val.before = <<handled.val.cleared_at, handled.val.cleared_at>>
    /\ handled.val.appended = 11024
    /\ handled.val.emitted = <<>>

\* C17 as stated: a chunk that is not valid base64 or does not hold a whole
\* number of 16-bit samples leaves the buffer as it was, emits no chord event
\* and leaves the connection registered
C17_BadChunkDropped ==
    handled.st = "ok" =>
       LET m == handled.val
       IN (/\ m.msg.type = "audio_chunk"
           /\ \/ m.msg.data.data \in {"bad_padding", "non_alphabet"}
              \/ m.msg.data.nbytes % 2 # 0) =>
             /\ m.after = m.before
             /\ m.emitted = <<>>
             /\ m.removed = 0

\* the payload makes b64decode or frombuffer raise
Undecodable(payload) == payload.data = "bad_padding" \/ payload.nbytes % 2 # 0

\* C17 amended: a chunk whose decoding raises (wrong base64 padding, or a
\* byte count that is not a whole number of 16-bit samples) leaves the buffer
\* as it was, emits no event and leaves the connection open and registered as
\* it was, and a chunk that decodes is processed as usual after chunks have
\* been dropped
C17_RaisingChunkDropped ==
    handled.st = "ok" =>
       LET m == handled.val
       IN /\ (m.msg.type = "audio_chunk" /\ Undecodable(m.msg.data)) =>
               /\ m.error # ""
               /\ m.after = m.before /\ m.appended = 0
               /\ m.emitted = <<>>
               /\ m.removed = 0
               /\ sessions[m.conn].pc = "open"
               /\ sessions[m.conn].dropped = m.dropped + 1
          /\ (m.msg.type = "audio_chunk" /\ m.dropped > 0 /\ Decodes(m)) =>
               /\ m.after = KeepLast(Concatenate(m.before, m.appended))
               /\ BufLen(m.after) >= MIN_SAMPLES => OneChord(m)

\* a chunk with an odd byte count was dropped while the buffer was above
\* 0.5 s, and the next chunk of the connection gave a chord event
C17_Witness ==
    /\ handled.st = "ok"
    /\ handled.val.msg.type = "audio_chunk"
    /\ handled.val.dropped > 0
    /\ handled.val.appended = 1
    /\ OneChord(handled.val)
    /\ handled.val.delivered_on = handled.val.conn

\* C18: the events a connection's handler emits are delivered on that
\* connection's socket only, and a connection's disconnect removes no other
\* connection's entry from the session map
C18_SessionsIndependent ==
    handled.st = "ok" =>
       LET m == handled.val
       IN /\ m.delivered_on \in {0, m.conn}
          /\ m.removed \in {0, m.conn}

\* ------------------------------------------------------------------------
\* Simplification
\* ------------------------------------------------------------------------
\* C19: for every label of the vocabulary (12 roots x 11 qualities and
\* "N.C."), simplifying the simplified label gives the simplified label, for
\* _simplify_chord of analysis.py and for _simplify_chord of chord_madmom.py
C19_SimplifyIdempotent ==
    (arg.st = "ok" /\ returned.st = "ok") =>
       (arg.val.fn = "_simplify_chord" => returned.val.twice = returned.val.once)

\* a label that the simplifier changes (Cm6 becomes Cmin7) was simplified twice
C19_Witness ==
    /\ arg.st = "ok" /\ returned.st = "ok"
    /\ arg.val.fn = "_simplify_chord" /\ arg.val.module = "analysis"
    /\ arg.val.x = <<"C", "m", "6">>
    /\ returned.val.once = <<"C", "m", "i", "n", "7">>
    /\ returned.val.twice = returned.val.once

\* C25: on every label of the vocabulary the simplifier of the precise path
\* and the simplifier of the fast path return the same reduced label
C25_OneSimplifyPolicy ==
    (arg.st = "ok" /\ returned.st = "ok") =>
       ((arg.val.fn = "_simplify_chord" /\ arg.val.x \in VOCABULARY) =>
          returned.val.once = IF arg.val.module = "analysis"
                              THEN madmom_simplify_chord(arg.val.x)
                              ELSE simplify_chord(arg.val.x))

\* C29: the range-adjustment loops of detect_tempo_madmom come to an end on
\* every raw tempo, zero and negative ones included
C29_TempoLoopTerminates ==
    (arg.st = "ok" /\ returned.st = "ok") =>
       (arg.val.fn = "detect_tempo_madmom" => returned.val.kind # "diverge")

\* ------------------------------------------------------------------------
\* Bar quantizer
\* ------------------------------------------------------------------------
\* the windows start at 0, each ends where the next starts, and all but the
\* last have the length bar_len, the last at most bar_len
Windows(out, bar_len) ==
    /\ out # <<>>
    /\ out[1].start = 0
    /\ \A i \in 1..(Len(out) - 1) :
          out[i].end = out[i + 1].start /\ out[i].end - out[i].start = bar_len
    /\ out[Len(out)].end - out[Len(out)].start <= bar_len
    /\ out[Len(out)].end > out[Len(out)].start

\* window w carries the label and confidence of an input segment with the
\* largest overlap, none of the segments tied with it starting earlier, or
\* "N.C." with confidence 0 when no segment overlaps it
LargestOverlap(cs, w) ==
    IF \A j \in 1..Len(cs) : Overlap(cs[j], w.start, w.end) = 0
    THEN w.chord = NC /\ w.confidence = 0
    ELSE \E i \in 1..Len(cs) :
            /\ w.chord = cs[i].chord /\ w.confidence = cs[i].confidence
            /\ \A j \in 1..Len(cs) :
                  /\ Overlap(cs[j], w.start, w.end) <= Overlap(cs[i], w.start, w.end)
                  /\ Overlap(cs[j], w.start, w.end) = Overlap(cs[i], w.start, w.end)
                        => cs[i].start <= cs[j].start

\* C24 as stated: for duration > 0 the windows tile [0, duration] exactly
C24_BarsTileDuration ==
    (arg.st = "ok" /\ returned.st = "ok") =>
       ((arg.val.fn = "_merge_chords_to_bars" /\ arg.val.duration > 0) =>
          LET out == returned.val
          IN /\ Windows(out, BarLen(arg.val.tempo, arg.val.beats_per_bar))
             /\ out[Len(out)].end = arg.val.duration
             /\ \A i \in 1..Len(out) : LargestOverlap(arg.val.chords, out[i]))

\* C24 amended: for duration > 1e-6 s the windows tile [0, last end] with the
\* last end within 1e-6 s below duration or equal to it; for a duration of at
\* most 1e-6 s no window is returned; the labels are as stated
C24_BarsTileWithinEpsilon ==
    (arg.st = "ok" /\ returned.st = "ok") =>
       ((arg.val.fn = "_merge_chords_to_bars" /\ arg.val.duration > 0) =>
          LET out == returned.val
          IN IF arg.val.duration <= EPSILON THEN out = <<>>
             ELSE /\ Windows(out, BarLen(arg.val.tempo, arg.val.beats_per_bar))
                  /\ out[Len(out)].end <= arg.val.duration
                  /\ out[Len(out)].end >= arg.val.duration - EPSILON
                  /\ \A i \in 1..Len(out) : LargestOverlap(arg.val.chords, out[i]))

\* a 4.5 s timeline cut into 2 s bars: the first bar has two segments tied
\* for the largest overlap, the last bar is short and overlaps none
C24_Witness ==
    /\ arg.st = "ok" /\ returned.st = "ok"
    /\ arg.val.fn = "_merge_chords_to_bars"
    /\ arg.val.chords = <<Seg(1000000, 2000000, <<"A", "m", "i", "n">>, 60),
                          Seg(0, 1000000, <<"C">>, 40)>>
    /\ arg.val.tempo = 120 /\ arg.val.beats_per_bar = 4 /\ arg.val.duration = 4500000
    /\ returned.val = <<Seg(0, 2000000, <<"C">>, 40), Seg(2000000, 4000000, NC, 0),
                        Seg(4000000, 4500000, NC, 0)>>

====
